---------------------------- MODULE Spec2Model ----------------------------
(***************************************************************************)
(* Intent routing and multi-agent orchestration engine of codevision_app:  *)
(* triage runs with guardrails and handoffs (AdvancedOrchestrator,         *)
(* PureSDKOrchestrator), parallel_analysis, sequential_chain and           *)
(* collaborative_review, the keyword and model phases of IntentClassifier, *)
(* the vector search tools and the BaseAgent specialists.                  *)
(*                                                                         *)
(* Texts the code inspects (handoff triggers, expertise areas, critiques,  *)
(* queries, keywords, prompts, passage contents) are sequences of          *)
(* one-character strings, so that str.lower(), str.strip(), slicing, the   *)
(* substring test `a in b` and the word-boundary search are computed as    *)
(* Python computes them.                                                   *)
(***************************************************************************)
EXTENDS Integers, Sequences, FiniteSets, TLC

VARIABLES
    op,             \* entry point in progress, "idle" before one is entered
    pc,             \* position inside the entry point
    current,        \* Runner.run: the agent whose turn it is
    turn,           \* Runner.run: model turns taken so far
    chain,          \* Runner.run: agents handed to, in order (the first by the triage agent)
    inGuard,        \* input guardrail of the starting agent
    outGuard,       \* output guardrail of the agent that produced the answer
    answer,         \* raw text the last agent produced
    specialistRuns, \* model calls made by specialist agents in this run
    toolCalls,      \* retrieval tool calls made in this run
    runOut,         \* what Runner.run gave back: a RunResult or an exception
    result,         \* dictionary the entry point returned
    raised,         \* exception that reached the caller, "none" if none
    persp,          \* parallel_analysis: state of each perspective run
    settledOrder,   \* parallel_analysis: perspectives in the order they settled
    analyses,       \* parallel_analysis: list collected after the gather
    errors,         \* parallel_analysis: list collected after the gather
    consensusCalls, \* parallel_analysis: Runner.run calls on consensus_agent
    consensus_input, \* parallel_analysis: the analyses put into the consensus prompt
    iteration,      \* collaborative_review: loop variable
    current_response, \* collaborative_review
    critique,       \* collaborative_review: last critique text
    criticCalls,    \* collaborative_review: Runner.run calls on critic_agent
    improverCalls,  \* collaborative_review: Runner.run calls on improver_agent
    critiques,      \* collaborative_review: what each critic call evaluated and answered
    query,          \* the text the entry point was called with
    stage_log,      \* sequential_chain: Runner.run calls started and settled, in order
    research_output,      \* sequential_chain
    analysis_input,       \* sequential_chain
    analysis_output,      \* sequential_chain
    recommendation_input, \* sequential_chain
    keyword_intent, \* IntentClassifier.classify: what _classify_by_keywords returned
    llmCalls,       \* IntentClassifier.classify: calls of llm_client.generate
    llm_response,   \* IntentClassifier._classify_by_llm: what llm_client.generate gave
    backend,        \* vector search: what happened at the vector database
    topics,         \* get_building_code_context_core: the topics asked for
    all_results,    \* get_building_code_context_core: passages gathered so far
    searched,       \* get_building_code_context_core: topics searched so far
    specialist,     \* specialist process_query: the BaseAgent subclass called
    context,        \* specialist process_query: what awaiting retrieve_context gave
    llm,            \* specialist process_query: what llm_client.generate gave
    specialists_cache, \* pure_sdk._specialists_cache: <<>> for None, else <<object>>
    triage_cache,   \* pure_sdk._triage_cache: <<>> for None, else <<agent>>
    objects,        \* objects the cache functions have constructed so far
    cache_log,      \* calls of the cache functions, in order
    graph_path,     \* OrchestratorAgent: nodes of the graph run so far
    state,          \* OrchestratorAgent: the OrchestratorState
    executed,       \* OrchestratorAgent: the specialist class whose process_query ran
    method,         \* run_advanced_orchestration: the method asked for
    hung,           \* parallel_analysis: perspectives whose run never completes
    run_contexts    \* parallel_analysis: the context object handed to each run

vars == <<op, pc, current, turn, chain, inGuard, outGuard, answer, specialistRuns,
          toolCalls, runOut, result, raised, persp, settledOrder, analyses, errors,
          consensusCalls, consensus_input, iteration, current_response, critique, criticCalls,
          improverCalls, critiques, query, stage_log, research_output, analysis_input,
          analysis_output, recommendation_input, keyword_intent, llmCalls, llm_response,
          backend, topics, all_results, searched, specialist, context, llm,
          specialists_cache, triage_cache, objects, cache_log, graph_path, state,
          executed, method, hung, run_contexts>>

runVars == <<current, turn, chain, inGuard, outGuard, answer, specialistRuns,
             toolCalls, runOut>>
parVars == <<persp, settledOrder, analyses, errors, consensusCalls, consensus_input>>
revVars == <<iteration, current_response, critique, criticCalls, improverCalls, critiques>>
seqVars == <<query, stage_log, research_output, analysis_input, analysis_output,
             recommendation_input>>
clsVars == <<keyword_intent, llmCalls, llm_response>>
vecVars == <<backend>>
ctxVars == <<topics, all_results, searched>>
agtVars == <<specialist, context, llm>>
toolVars == <<clsVars, vecVars, ctxVars, agtVars>>
orchVars == <<runVars, parVars, revVars>>
cacheVars == <<specialists_cache, triage_cache, objects, cache_log>>
orcVars == <<graph_path, state, executed>>
extVars == <<cacheVars, orcVars, method, hung, run_contexts>>

-----------------------------------------------------------------------------
(* Python str operations on texts *)

UpperToLower ==
    ("A" :> "a") @@ ("B" :> "b") @@ ("C" :> "c") @@ ("D" :> "d") @@ ("E" :> "e") @@
    ("F" :> "f") @@ ("G" :> "g") @@ ("H" :> "h") @@ ("I" :> "i") @@ ("J" :> "j") @@
    ("K" :> "k") @@ ("L" :> "l") @@ ("M" :> "m") @@ ("N" :> "n") @@ ("O" :> "o") @@
    ("P" :> "p") @@ ("Q" :> "q") @@ ("R" :> "r") @@ ("S" :> "s") @@ ("T" :> "t") @@
    ("U" :> "u") @@ ("V" :> "v") @@ ("W" :> "w") @@ ("X" :> "x") @@ ("Y" :> "y") @@
    ("Z" :> "z")

\* str.lower()
Lower(s) ==
    [i \in 1..Len(s) |-> IF s[i] \in DOMAIN UpperToLower THEN UpperToLower[s[i]] ELSE s[i]]

\* sub in s
Contains(sub, s) ==
    \E i \in 0..(Len(s) - Len(sub)) : \A j \in 1..Len(sub) : s[i + j] = sub[j]

-----------------------------------------------------------------------------
(* agents/specifications.py: AGENT_SPECIFICATIONS (name, expertise, handoff_triggers) *)

CODE_B_SPEC ==
    [name |-> "Code B Specialist",
     expertise |-> <<
        <<"B","u","i","l","d","i","n","g"," ","c","l","a","s","s","i","f","i","c","a","t","i","o","n","s">>,
        <<"F","i","r","e"," ","s","a","f","e","t","y"," ","r","e","q","u","i","r","e","m","e","n","t","s">>,
        <<"S","t","r","u","c","t","u","r","a","l"," ","r","e","q","u","i","r","e","m","e","n","t","s">>,
        <<"G","e","n","e","r","a","l"," ","c","o","m","p","l","i","a","n","c","e">> >>,
     handoff_triggers |-> <<
        <<"e","n","e","r","g","y"," ","e","f","f","i","c","i","e","n","c","y">>,
        <<"b","u","i","l","d","i","n","g"," ","e","n","v","e","l","o","p","e">>,
        <<"t","h","e","r","m","a","l"," ","p","e","r","f","o","r","m","a","n","c","e">>,
        <<"a","c","c","e","s","s","i","b","i","l","i","t","y">>,
        <<"u","n","i","v","e","r","s","a","l"," ","d","e","s","i","g","n">>,
        <<"l","i","g","h","t","i","n","g">>,
        <<"e","l","e","c","t","r","i","c","a","l"," ","e","f","f","i","c","i","e","n","c","y">>,
        <<"w","a","t","e","r"," ","s","y","s","t","e","m","s">> >>]

CODE_C_SPEC ==
    [name |-> "Code C Specialist",
     expertise |-> <<
        <<"T","h","e","r","m","a","l"," ","p","e","r","f","o","r","m","a","n","c","e">>,
        <<"I","n","s","u","l","a","t","i","o","n"," ","a","n","d"," ","g","l","a","z","i","n","g">>,
        <<"A","i","r"," ","t","i","g","h","t","n","e","s","s"," ","a","n","d"," ","s","e","a","l","i","n","g">>,
        <<"B","u","i","l","d","i","n","g"," ","e","n","v","e","l","o","p","e"," ","r","e","q","u","i","r","e","m","e","n","t","s">>,
        <<"E","n","e","r","g","y"," ","e","f","f","i","c","i","e","n","c","y"," ","c","o","m","p","l","i","a","n","c","e">> >>,
     handoff_triggers |-> <<
        <<"s","t","r","u","c","t","u","r","a","l"," ","r","e","q","u","i","r","e","m","e","n","t","s">>,
        <<"b","u","i","l","d","i","n","g"," ","c","l","a","s","s","i","f","i","c","a","t","i","o","n">>,
        <<"a","c","c","e","s","s","i","b","i","l","i","t","y">>,
        <<"f","i","r","e"," ","s","a","f","e","t","y">>,
        <<"l","i","g","h","t","i","n","g">>,
        <<"e","l","e","c","t","r","i","c","a","l"," ","e","f","f","i","c","i","e","n","c","y">> >>]

CODE_D_SPEC ==
    [name |-> "Code D Specialist",
     expertise |-> <<
        <<"H","V","A","C"," ","p","e","r","f","o","r","m","a","n","c","e"," ","a","n","d"," ","d","e","s","i","g","n">>,
        <<"V","e","n","t","i","l","a","t","i","o","n"," ","a","n","d"," ","i","n","d","o","o","r"," ","a","i","r"," ","q","u","a","l","i","t","y">>,
        <<"S","m","o","k","e"," ","c","o","n","t","r","o","l"," ","a","n","d"," ","p","r","e","s","s","u","r","i","s","a","t","i","o","n">>,
        <<"E","x","h","a","u","s","t"," ","s","y","s","t","e","m","s"," ","a","n","d"," ","d","u","c","t","i","n","g">>,
        <<"C","o","m","m","i","s","s","i","o","n","i","n","g"," ","a","n","d"," ","m","a","i","n","t","e","n","a","n","c","e"," ","r","e","q","u","i","r","e","m","e","n","t","s">>,
        <<"M","e","c","h","a","n","i","c","a","l"," ","s","y","s","t","e","m","s"," ","i","n","t","e","g","r","a","t","i","o","n">>,
        <<"A","c","c","e","s","s"," ","r","o","u","t","e","s"," ","a","n","d"," ","m","e","c","h","a","n","i","c","a","l"," ","i","n","s","t","a","l","l","a","t","i","o","n","s">> >>,
     handoff_triggers |-> <<
        <<"a","c","c","e","s","s","i","b","i","l","i","t","y">>,
        <<"f","i","r","e"," ","s","a","f","e","t","y">>,
        <<"b","u","i","l","d","i","n","g"," ","e","n","v","e","l","o","p","e">>,
        <<"m","e","c","h","a","n","i","c","a","l"," ","s","y","s","t","e","m","s">>,
        <<"v","e","n","t","i","l","a","t","i","o","n">> >>]

CODE_E_SPEC ==
    [name |-> "Code E Specialist",
     expertise |-> <<
        <<"L","i","g","h","t","i","n","g"," ","p","o","w","e","r"," ","d","e","n","s","i","t","y"," ","a","n","d"," ","c","o","n","t","r","o","l","s">>,
        <<"D","a","y","l","i","g","h","t","i","n","g"," ","a","n","d"," ","o","c","c","u","p","a","n","c","y"," ","s","e","n","s","o","r","s">>,
        <<"E","m","e","r","g","e","n","c","y"," ","a","n","d"," ","e","x","i","t"," ","l","i","g","h","t","i","n","g"," ","c","o","n","s","i","d","e","r","a","t","i","o","n","s">>,
        <<"E","l","e","c","t","r","i","c","a","l"," ","e","f","f","i","c","i","e","n","c","y"," ","m","e","a","s","u","r","e","s">> >>,
     handoff_triggers |-> <<
        <<"b","u","i","l","d","i","n","g"," ","e","n","v","e","l","o","p","e">>,
        <<"t","h","e","r","m","a","l"," ","p","e","r","f","o","r","m","a","n","c","e">>,
        <<"s","t","r","u","c","t","u","r","a","l">>,
        <<"m","e","c","h","a","n","i","c","a","l"," ","s","y","s","t","e","m","s">>,
        <<"v","e","n","t","i","l","a","t","i","o","n">>,
        <<"e","l","e","c","t","r","i","c","a","l"," ","s","e","r","v","i","c","e","s">> >>]

CODE_F_SPEC ==
    [name |-> "Code F Specialist",
     expertise |-> <<
        <<"P","l","u","m","b","i","n","g"," ","a","n","d"," ","w","a","t","e","r"," ","e","f","f","i","c","i","e","n","c","y">>,
        <<"H","o","t"," ","w","a","t","e","r"," ","s","y","s","t","e","m","s"," ","a","n","d"," ","c","o","n","t","r","o","l","s">>,
        <<"W","a","t","e","r"," ","h","e","a","t","i","n","g"," ","e","q","u","i","p","m","e","n","t"," ","p","e","r","f","o","r","m","a","n","c","e">>,
        <<"R","a","i","n","w","a","t","e","r"," ","a","n","d"," ","g","r","e","y","w","a","t","e","r"," ","s","y","s","t","e","m","s">> >>,
     handoff_triggers |-> <<
        <<"a","c","c","e","s","s","i","b","i","l","i","t","y">>,
        <<"b","u","i","l","d","i","n","g"," ","s","a","f","e","t","y">>,
        <<"f","i","r","e"," ","s","a","f","e","t","y">>,
        <<"m","e","c","h","a","n","i","c","a","l"," ","s","y","s","t","e","m","s">>,
        <<"w","a","t","e","r"," ","s","y","s","t","e","m","s">>,
        <<"e","l","e","c","t","r","i","c","a","l"," ","s","e","r","v","i","c","e","s">> >>]

CODE_G_SPEC ==
    [name |-> "Code G Specialist",
     expertise |-> <<
        <<"E","l","e","c","t","r","i","c","a","l"," ","s","e","r","v","i","c","e","s"," ","a","n","d"," ","s","y","s","t","e","m","s">>,
        <<"P","o","w","e","r"," ","d","i","s","t","r","i","b","u","t","i","o","n"," ","a","n","d"," ","m","e","t","e","r","i","n","g">>,
        <<"E","l","e","c","t","r","i","c","a","l"," ","s","a","f","e","t","y"," ","a","n","d"," ","c","o","m","p","l","i","a","n","c","e">>,
        <<"E","n","e","r","g","y"," ","m","o","n","i","t","o","r","i","n","g"," ","a","n","d"," ","c","o","n","t","r","o","l","s">> >>,
     handoff_triggers |-> <<
        <<"e","n","e","r","g","y"," ","e","f","f","i","c","i","e","n","c","y">>,
        <<"a","c","c","e","s","s","i","b","i","l","i","t","y">>,
        <<"b","u","i","l","d","i","n","g"," ","s","e","r","v","i","c","e","s">>,
        <<"m","e","c","h","a","n","i","c","a","l"," ","s","y","s","t","e","m","s">>,
        <<"e","l","e","c","t","r","i","c","a","l"," ","s","y","s","t","e","m","s">> >>]

CODE_H_SPEC ==
    [name |-> "Code H Specialist",
     expertise |-> <<
        <<"A","c","c","e","s","s","i","b","l","e"," ","d","e","s","i","g","n"," ","a","n","d"," ","c","o","m","p","l","i","a","n","c","e">>,
        <<"E","g","r","e","s","s"," ","w","i","d","t","h"," ","c","a","l","c","u","l","a","t","i","o","n","s">>,
        <<"L","i","f","t"," ","a","n","d"," ","r","a","m","p"," ","s","p","e","c","i","f","i","c","a","t","i","o","n","s">>,
        <<"U","n","i","v","e","r","s","a","l"," ","d","e","s","i","g","n"," ","p","r","i","n","c","i","p","l","e","s">> >>,
     handoff_triggers |-> <<
        <<"f","i","r","e"," ","s","a","f","e","t","y">>,
        <<"e","g","r","e","s","s">>,
        <<"b","u","i","l","d","i","n","g"," ","c","l","a","s","s","i","f","i","c","a","t","i","o","n">>,
        <<"e","n","e","r","g","y"," ","e","f","f","i","c","i","e","n","c","y">>,
        <<"l","i","g","h","t","i","n","g">>,
        <<"e","l","e","c","t","r","i","c","a","l"," ","s","y","s","t","e","m","s">> >>]


\* get_all_agent_types(): the keys of AGENT_SPECIFICATIONS in insertion order
AgentTypes == <<"code_b", "code_c", "code_d", "code_e", "code_f", "code_g", "code_h">>

Range(s) == {s[i] : i \in 1..Len(s)}

AGENT_SPECIFICATIONS ==
    [t \in Range(AgentTypes) |->
        CASE t = "code_b" -> CODE_B_SPEC
          [] t = "code_c" -> CODE_C_SPEC
          [] t = "code_d" -> CODE_D_SPEC
          [] t = "code_e" -> CODE_E_SPEC
          [] t = "code_f" -> CODE_F_SPEC
          [] t = "code_g" -> CODE_G_SPEC
          [] t = "code_h" -> CODE_H_SPEC]

\* dict.get(key, default)
DictGet(d, key, default) == IF key \in DOMAIN d THEN d[key] ELSE default

\* AGENT_SPECIFICATIONS.get(agent_type, {})
get_agent_spec(agent_type) == DictGet(AGENT_SPECIFICATIONS, agent_type, <<>>)

-----------------------------------------------------------------------------
(* agents/pure_sdk.py: _setup_handoffs *)

\* [area.lower() for area in other_spec.get('expertise', [])]
other_expertise(other_type) ==
    LET areas == DictGet(get_agent_spec(other_type), "expertise", <<>>)
    IN  [i \in 1..Len(areas) |-> Lower(areas[i])]

\* any(trigger.lower() in expertise for expertise in other_expertise)
TriggerMatches(trigger, other_type) ==
    LET oe == other_expertise(other_type)
    IN  \E i \in 1..Len(oe) : Contains(Lower(trigger), oe[i])

\* variant: the inner loop without its `continue`
SkipOther_never(agent_type, other_type) == FALSE

\* the inner loop's `if other_type == agent_type: continue`
SkipOther(agent_type, other_type) == other_type = agent_type

\* the two nested loops, pair k = (trigger, other_type), appending each new match
RECURSIVE HandoffScan(_, _, _, _)
HandoffScan(agent_type, triggers, k, targets) ==
    LET n == Len(AgentTypes)
    IN  IF k > Len(triggers) * n THEN targets
        ELSE LET trigger    == triggers[((k - 1) \div n) + 1]
                 other_type == AgentTypes[((k - 1) % n) + 1]
                 hit == /\ ~SkipOther(agent_type, other_type)
                        /\ TriggerMatches(trigger, other_type)
                        /\ other_type \notin Range(targets)
             IN  HandoffScan(agent_type, triggers, k + 1,
                             IF hit THEN Append(targets, other_type) ELSE targets)

handoff_targets(agent_type) ==
    HandoffScan(agent_type,
                DictGet(get_agent_spec(agent_type), "handoff_triggers", <<>>), 1, <<>>)

\* agent.handoffs of every pure SDK specialist after create_pure_sdk_specialists()
PureHandoffs == [t \in Range(AgentTypes) |-> handoff_targets(t)]

-----------------------------------------------------------------------------
(* agents/advanced/agents.py: create_specialist_agents, create_triage_agent *)

AdvancedTypes == <<"code_b", "code_c", "code_h">>

AdvancedHandoffs ==
    [t \in Range(AdvancedTypes) |->
        CASE t = "code_b" -> <<"code_c", "code_h">>
          [] t = "code_c" -> <<"code_b", "code_h">>
          [] t = "code_h" -> <<"code_b", "code_c">>]

Triage == "triage"

\* the specialists dictionary the orchestrator `o` was built with
Specialists(o) == IF o = "advanced" THEN AdvancedTypes ELSE AgentTypes

\* agent.handoffs; the triage agent hands off to list(specialists.values())
Handoffs(o, agent) ==
    IF agent = Triage THEN Specialists(o)
    ELSE IF o = "advanced" THEN AdvancedHandoffs[agent] ELSE PureHandoffs[agent]

\* advanced specialists are built without tools, pure ones with get_tools_for_agent
HasTools(o, agent) == o = "pure" /\ agent # Triage

AgentName(agent) ==
    IF agent = Triage THEN "CodeVision Triage Agent"
    ELSE AGENT_SPECIFICATIONS[agent].name

-----------------------------------------------------------------------------
(* agents/advanced/guardrails.py *)

OutOfScopeMessage == "I can only help with building code and construction regulation questions. Please ask about building codes, fire safety, accessibility, energy efficiency, or other construction-related topics."

RephraseMessage == "I generated a response that didn't meet safety standards. Please rephrase your building code question and I'll provide a safer, more appropriate response."

\* what the guardrail agent's own Runner.run can give: a verdict, or an exception
InputVerdicts  == {"building_code_query", "not_building_code_query", "guard_call_failed"}
OutputVerdicts == {"safe_response", "not_safe_response", "guard_call_failed"}

\* variant: a failed guard call trips the wire instead of passing the input
building_code_input_guardrail_fail_closed(verdict) ==
    IF verdict = "guard_call_failed"
    THEN [tripwire_triggered |-> TRUE, failed_open |-> FALSE]
    ELSE [tripwire_triggered |-> ~(verdict = "building_code_query"), failed_open |-> FALSE]

\* building_code_input_guardrail: GuardrailFunctionOutput.tripwire_triggered
building_code_input_guardrail(verdict) ==
    IF verdict = "guard_call_failed"
    THEN [tripwire_triggered |-> FALSE, failed_open |-> TRUE]
    ELSE [tripwire_triggered |-> ~(verdict = "building_code_query"), failed_open |-> FALSE]

\* variant: tripwire_triggered=validation.is_safe_response, the `not` left out
safety_output_guardrail_not_dropped(verdict) ==
    IF verdict = "guard_call_failed"
    THEN [tripwire_triggered |-> FALSE, failed_open |-> TRUE]
    ELSE [tripwire_triggered |-> (verdict = "safe_response"), failed_open |-> FALSE]

\* safety_output_guardrail: GuardrailFunctionOutput.tripwire_triggered
safety_output_guardrail(verdict) ==
    IF verdict = "guard_call_failed"
    THEN [tripwire_triggered |-> FALSE, failed_open |-> TRUE]
    ELSE [tripwire_triggered |-> ~(verdict = "safe_response"), failed_open |-> FALSE]

\* outcomes of Runner.run as seen by its caller
RunOk(final_output, last_agent) ==
    [status |-> "ok", final_output |-> final_output, last_agent |-> last_agent]
RunExc(exc) == [status |-> "exc", exc |-> exc]
NoRun == [status |-> "none"]

\* a returned dictionary, or an exception left to the caller
Returned(d) == [kind |-> "return", value |-> d]
Raise(exc)  == [kind |-> "raise", exc |-> exc]

\* variant: the except clause for InputGuardrailTripwireTriggered is missing
handle_guardrail_exceptions_output_only(out) ==
    IF out.kind = "raise" /\ out.exc = "OutputGuardrailTripwireTriggered"
    THEN Returned([final_output |-> RephraseMessage,
                   error |-> "output_guardrail_triggered",
                   guardrail_info |-> out.exc])
    ELSE out

\* handle_guardrail_exceptions(func): `out` is what awaiting func() gave
handle_guardrail_exceptions(out) ==
    IF out.kind = "raise" /\ out.exc = "InputGuardrailTripwireTriggered"
    THEN Returned([final_output |-> OutOfScopeMessage,
                   error |-> "input_guardrail_triggered",
                   guardrail_info |-> out.exc])
    ELSE IF out.kind = "raise" /\ out.exc = "OutputGuardrailTripwireTriggered"
    THEN Returned([final_output |-> RephraseMessage,
                   error |-> "output_guardrail_triggered",
                   guardrail_info |-> out.exc])
    ELSE out

\* AdvancedOrchestrator.process_query._run_with_guardrails after Runner.run settled
run_with_guardrails(run) ==
    IF run.status = "exc" THEN Raise(run.exc)
    ELSE Returned([final_output |-> run.final_output,
                   last_agent |-> AgentName(run.last_agent),
                   routing_method |-> "native_sdk_handoffs"])

\* AdvancedOrchestrator.process_query
AdvancedProcessQuery(run) == handle_guardrail_exceptions(run_with_guardrails(run))

-----------------------------------------------------------------------------
(* agents/pure_orchestrator.py: PureSDKOrchestrator.process_query *)

PureErrorMessage == "I encountered an error processing your building code query. Please try again."

\* try: Runner.run ... return {...}  except Exception as e: return {...}
PureProcessQuery(run) ==
    IF run.status = "exc"
    THEN Returned([final_output |-> PureErrorMessage,
                   last_agent |-> "error_handler",
                   routing_method |-> "pure_sdk_error",
                   error |-> run.exc,
                   error_type |-> run.exc,
                   orchestrator_type |-> "pure_sdk",
                   success |-> FALSE])
    ELSE Returned([final_output |-> run.final_output,
                   last_agent |-> AgentName(run.last_agent),
                   routing_method |-> "pure_sdk_handoffs",
                   orchestrator_type |-> "pure_sdk",
                   success |-> TRUE])

-----------------------------------------------------------------------------
(* Runner.run(triage_agent, query, context=context or {}) as both              *)
(* orchestrators call it: the agent loop of the Agents SDK.  Input guardrails  *)
(* of the starting agent run alongside the first model turn and are joined     *)
(* before anything else happens; every turn is one model call of the current   *)
(* agent, which answers, hands off, calls a tool or fails; the output          *)
(* guardrails of the answering agent run on the answer.                        *)

\* turns one Runner.run may take (max_turns is not passed, the SDK default applies)
MaxTurns == 4

\* texts a model may produce as an answer
RawAnswers == {"raw answer 1", "raw answer 2"}

InputTripped ==
    inGuard \in InputVerdicts /\ building_code_input_guardrail(inGuard).tripwire_triggered

InputPassed ==
    inGuard \in InputVerdicts /\ ~building_code_input_guardrail(inGuard).tripwire_triggered

OutputTripped ==
    outGuard \in OutputVerdicts /\ safety_output_guardrail(outGuard).tripwire_triggered

\* the loop's `current_turn > max_turns` test, before a turn is taken
TurnAllowed(t) == t < MaxTurns

\* the first turn is gathered with the input guardrails; later turns follow the join
GuardJoined(t) == t = 0 \/ InputPassed

IsSpecialist(agent) == agent # Triage

Finish(out) ==
    IF out.kind = "return"
    THEN result' = out.value /\ raised' = "none" /\ pc' = "returned"
    ELSE result' = <<>> /\ raised' = out.exc /\ pc' = "raised"

Init ==
    /\ op = "idle" /\ pc = "idle"
    /\ current = "none" /\ turn = 0 /\ chain = <<>>
    /\ inGuard = "none" /\ outGuard = "none" /\ answer = "none"
    /\ specialistRuns = 0 /\ toolCalls = 0
    /\ runOut = NoRun /\ result = <<>> /\ raised = "none"
    /\ persp = <<>> /\ settledOrder = <<>> /\ analyses = <<>> /\ errors = <<>>
    /\ consensusCalls = 0 /\ consensus_input = <<>>
    /\ iteration = 0 /\ current_response = "none" /\ critique = <<>>
    /\ criticCalls = 0 /\ improverCalls = 0 /\ critiques = <<>>
    /\ query = <<>> /\ stage_log = <<>>
    /\ research_output = <<>> /\ analysis_input = <<>>
    /\ analysis_output = <<>> /\ recommendation_input = <<>>
    /\ keyword_intent = "None" /\ llmCalls = 0 /\ llm_response = [status |-> "not called"]
    /\ backend = [status |-> "not called"]
    /\ topics = <<>> /\ all_results = <<>> /\ searched = 0
    /\ specialist = "none" /\ context = <<>> /\ llm = [status |-> "not called"]
    /\ specialists_cache = <<>> /\ triage_cache = <<>> /\ objects = 0 /\ cache_log = <<>>
    /\ graph_path = <<>> /\ state = [intent |-> <<>>, specialist_agent |-> <<>>, response |-> <<>>, sources |-> <<>>,
                error |-> <<>>]
    /\ executed = [agent |-> "none", loaded |-> "none"]
    /\ method = "none" /\ hung = {} /\ run_contexts = [caller |-> "not called", objects |-> <<>>]

\* process_query entered on AdvancedOrchestrator ("advanced") or PureSDKOrchestrator ("pure")
StartProcessQuery(o) ==
    /\ op = "idle"
    /\ op' = o /\ pc' = "running"
    /\ current' = Triage /\ inGuard' = "pending" /\ outGuard' = "pending"
    /\ UNCHANGED <<extVars, seqVars, toolVars, turn, chain, answer, specialistRuns, toolCalls, runOut, result,
                   raised, parVars, revVars>>

InRun == op \in {"advanced", "pure"}

\* the input guardrail's own agent run settles
InputGuardrailSettles ==
    /\ InRun /\ pc \in {"running", "output_guard"} /\ inGuard = "pending"
    /\ \E v \in InputVerdicts : inGuard' = v
    /\ UNCHANGED <<extVars, seqVars, toolVars, op, pc, current, turn, chain, outGuard, answer, specialistRuns,
                   toolCalls, runOut, result, raised, parVars, revVars>>

\* InputGuardrailTripwireTriggered leaves Runner.run
InputTripwireRaises ==
    /\ InRun /\ pc \in {"running", "output_guard"} /\ InputTripped
    /\ runOut' = RunExc("InputGuardrailTripwireTriggered")
    /\ pc' = "run_done"
    /\ UNCHANGED <<extVars, seqVars, toolVars, op, current, turn, chain, inGuard, outGuard, answer, specialistRuns,
                   toolCalls, result, raised, parVars, revVars>>

TurnGuard ==
    /\ InRun /\ pc = "running" /\ TurnAllowed(turn) /\ GuardJoined(turn)
    /\ ~InputTripped

CountSpecialist == IF IsSpecialist(current) THEN specialistRuns + 1 ELSE specialistRuns

\* the current agent's model call produces its final answer
TurnAnswers ==
    /\ TurnGuard
    /\ \E a \in RawAnswers : answer' = a
    /\ turn' = turn + 1 /\ specialistRuns' = CountSpecialist
    /\ pc' = "output_guard"
    /\ UNCHANGED <<extVars, seqVars, toolVars, op, current, chain, inGuard, outGuard, toolCalls, runOut, result,
                   raised, parVars, revVars>>

\* the current agent's model call picks one of its handoffs
TurnHandsOff ==
    /\ TurnGuard
    /\ \E target \in Range(Handoffs(op, current)) :
          /\ current' = target
          /\ chain' = Append(chain, target)
    /\ turn' = turn + 1 /\ specialistRuns' = CountSpecialist
    /\ UNCHANGED <<extVars, seqVars, toolVars, op, pc, inGuard, outGuard, answer, toolCalls, runOut, result,
                   raised, parVars, revVars>>

\* the current agent's model call asks for a retrieval tool, which is run
TurnCallsTool ==
    /\ TurnGuard /\ HasTools(op, current)
    /\ toolCalls' = toolCalls + 1
    /\ turn' = turn + 1 /\ specialistRuns' = CountSpecialist
    /\ UNCHANGED <<extVars, seqVars, toolVars, op, pc, current, chain, inGuard, outGuard, answer, runOut, result,
                   raised, parVars, revVars>>

\* the model call itself fails (timeout, quota, malformed response)
TurnFails ==
    /\ TurnGuard
    /\ turn' = turn + 1 /\ specialistRuns' = CountSpecialist
    /\ runOut' = RunExc("ModelError") /\ pc' = "run_done"
    /\ UNCHANGED <<extVars, seqVars, toolVars, op, current, chain, inGuard, outGuard, answer, toolCalls, result,
                   raised, parVars, revVars>>

\* the loop finds the turn budget used up
MaxTurnsExceeded ==
    /\ InRun /\ pc = "running" /\ ~TurnAllowed(turn) /\ ~InputTripped
    /\ runOut' = RunExc("MaxTurnsExceeded") /\ pc' = "run_done"
    /\ UNCHANGED <<extVars, seqVars, toolVars, op, current, turn, chain, inGuard, outGuard, answer, specialistRuns,
                   toolCalls, result, raised, parVars, revVars>>

\* the answering agent's output guardrail settles; Runner.run returns or raises
OutputGuardrailSettles ==
    /\ InRun /\ pc = "output_guard" /\ InputPassed
    /\ \E v \in OutputVerdicts :
          /\ outGuard' = v
          /\ runOut' = IF safety_output_guardrail(v).tripwire_triggered
                       THEN RunExc("OutputGuardrailTripwireTriggered")
                       ELSE RunOk(answer, current)
    /\ pc' = "run_done"
    /\ UNCHANGED <<extVars, seqVars, toolVars, op, current, turn, chain, inGuard, answer, specialistRuns,
                   toolCalls, result, raised, parVars, revVars>>

\* AdvancedOrchestrator.process_query returns to its caller
AdvancedReturns ==
    /\ op = "advanced" /\ pc = "run_done"
    /\ Finish(AdvancedProcessQuery(runOut))
    /\ UNCHANGED <<extVars, seqVars, toolVars, op, runVars, parVars, revVars>>

\* PureSDKOrchestrator.process_query returns to its caller
PureReturns ==
    /\ op = "pure" /\ pc = "run_done"
    /\ Finish(PureProcessQuery(runOut))
    /\ UNCHANGED <<extVars, seqVars, toolVars, op, runVars, parVars, revVars>>

-----------------------------------------------------------------------------
(* agents/advanced/orchestration.py: parallel_analysis *)

\* the three runs handed to asyncio.gather, in argument order
PerspectiveAgents ==
    <<"Structural Analysis Agent", "Fire Safety Analysis Agent", "Accessibility Analysis Agent">>

\* the agent_name labels of the collecting loop, in its order
PerspectiveLabels ==
    <<"Structural Analysis", "Fire Safety Analysis", "Accessibility Analysis">>

Perspectives == 1..Len(PerspectiveAgents)

\* str(exception) of a failed run
ErrorTexts == {"timeout", "quota"}

Running == [status |-> "running"]

Settled(i) == persp[i].status # "running"

\* asyncio.gather(..., return_exceptions=True) returns once every run has settled
JoinReady == \A i \in Perspectives : Settled(i)

\* isinstance(result, Exception)
IsException(r) == r.status = "failed"

\* variant: results collected in the order the runs settled (as_completed)
RECURSIVE Collect_completion_order(_, _, _)
Collect_completion_order(results, i, acc) ==
    IF i > Len(settledOrder) THEN acc
    ELSE LET p == settledOrder[i]
         IN  IF IsException(results[p])
             THEN Collect_completion_order(results, i + 1,
                      [acc EXCEPT !.errors = Append(@, <<PerspectiveLabels[p], results[p].error>>)])
             ELSE Collect_completion_order(results, i + 1,
                      [acc EXCEPT !.analyses = Append(@, results[p].final_output)])

\* for result, agent_name in [...]: errors.append(...) / analyses.append(...)
RECURSIVE Collect(_, _, _)
Collect(results, i, acc) ==
    IF i > Len(results) THEN acc
    ELSE IF IsException(results[i])
         THEN Collect(results, i + 1,
                      [acc EXCEPT !.errors = Append(@, <<PerspectiveLabels[i], results[i].error>>)])
         ELSE Collect(results, i + 1,
                      [acc EXCEPT !.analyses = Append(@, results[i].final_output)])

\* variant: `if errors`, giving up as soon as one perspective failed
NoAnalyses_any_error(collected) == collected.errors # <<>>

\* variant: the early return left out
NoAnalyses_never(collected) == FALSE

\* `if not analyses`
NoAnalyses(collected) == collected.analyses = <<>>

ParallelFailedMessage == "Analysis failed due to errors in all parallel agents."

\* f"Query: {query}\n\nExpert Analyses:\n{analysis_summary}": the analyses it joins
ConsensusInput(collected) == [k \in 1..Len(collected.analyses) |-> collected.analyses[k].agent_name]

\* variant: a failing run cancels the runs still pending (a task group's policy)
OnSettle_cancel_siblings(slots, i, outcome) ==
    [j \in DOMAIN slots |->
        IF j = i THEN outcome
        ELSE IF outcome.status = "failed" /\ slots[j].status = "running"
             THEN [status |-> "failed", error |-> "cancelled"]
             ELSE slots[j]]

\* a run settling fills its own slot of the gather's result list and no other
OnSettle(slots, i, outcome) == [slots EXCEPT ![i] = outcome]

\* what the caller passes as `context`
CallerContexts == {"None", "empty", "non-empty"}

\* the object the caller's dictionary is, and the object a `{}` evaluated for
\* run i is
CallerObject == 0
FreshObject(i) == i

\* `context or {}` as evaluated for the i-th Runner.run of the gather: None
\* and an empty dictionary are falsy, so a new dictionary is made; a non-empty
\* dictionary is passed on as the object it is
ContextArgument(caller, i) ==
    IF caller \in {"None", "empty"} THEN FreshObject(i) ELSE CallerObject

StartParallelAnalysis ==
    /\ op = "idle"
    /\ op' = "parallel" /\ pc' = "gather"
    /\ persp' = [i \in Perspectives |-> Running]
    /\ \E caller \in CallerContexts :
          run_contexts' = [caller |-> caller,
                           objects |-> [i \in Perspectives |-> ContextArgument(caller, i)]]
    /\ UNCHANGED <<cacheVars, orcVars, method, hung, seqVars, toolVars, runVars, result, raised, settledOrder, analyses, errors,
                   consensusCalls, consensus_input, revVars>>

\* one perspective's Runner.run settles: an AnalysisResult, or an exception
PerspectiveSettles(i) ==
    /\ op = "parallel" /\ pc = "gather" /\ ~Settled(i) /\ i \notin hung
    /\ \/ persp' = OnSettle(persp, i,
                      [status |-> "ok",
                       final_output |-> [agent_name |-> PerspectiveAgents[i],
                                         analysis |-> "analysis"]])
       \/ \E e \in ErrorTexts :
             persp' = OnSettle(persp, i, [status |-> "failed", error |-> e])
    /\ settledOrder' = Append(settledOrder, i)
    /\ UNCHANGED <<extVars, seqVars, toolVars, op, pc, runVars, result, raised, analyses, errors,
                   consensusCalls, consensus_input, revVars>>

\* one perspective's Runner.run is awaited with no timeout (no wait_for around
\* it or around the gather): a collaborator call that never completes leaves
\* the run pending for good
PerspectiveHangs(i) ==
    /\ op = "parallel" /\ pc = "gather" /\ ~Settled(i) /\ i \notin hung
    /\ hung' = hung \cup {i}
    /\ UNCHANGED <<cacheVars, orcVars, method, run_contexts, seqVars, toolVars, op, pc, runVars,
                   result, raised, parVars, revVars>>

\* the gather returns; results are collected; either the failure dictionary is
\* returned or the consensus agent's run is started
GatherReturns ==
    /\ op = "parallel" /\ pc = "gather" /\ JoinReady
    /\ LET collected == Collect(persp, 1, [analyses |-> <<>>, errors |-> <<>>])
       IN  /\ analyses' = collected.analyses
           /\ errors' = collected.errors
           /\ IF NoAnalyses(collected)
              THEN /\ result' = [final_output |-> ParallelFailedMessage,
                                 errors |-> collected.errors,
                                 routing_method |-> "parallel_analysis_failed"]
                   /\ pc' = "returned"
                   /\ UNCHANGED <<consensusCalls, consensus_input>>
              ELSE /\ consensus_input' = ConsensusInput(collected)
                   /\ consensusCalls' = consensusCalls + 1
                   /\ pc' = "consensus"
                   /\ UNCHANGED result
    /\ UNCHANGED <<extVars, seqVars, toolVars, op, runVars, raised, persp, settledOrder, revVars>>

\* the consensus agent's run settles: a ConsensusResult is returned in the
\* result dictionary, or its exception leaves parallel_analysis
ConsensusSettles ==
    /\ op = "parallel" /\ pc = "consensus"
    /\ \/ /\ result' = [final_output |-> "final recommendation",
                        parallel_analyses |-> analyses,
                        routing_method |-> "parallel_analysis",
                        errors |-> IF errors # <<>> THEN errors ELSE "None"]
          /\ pc' = "returned"
          /\ UNCHANGED raised
       \/ /\ raised' = "ModelError"
          /\ pc' = "raised"
          /\ UNCHANGED result
    /\ UNCHANGED <<extVars, seqVars, toolVars, op, runVars, parVars, revVars>>

-----------------------------------------------------------------------------
(* agents/advanced/orchestration.py: collaborative_review *)

max_iterations == 3

\* critiques the critic may write: the rating it gives and the text it returns
Critiques ==
    { [rating |-> "excellent", text |-> <<"E","x","c","e","l","l","e","n","t">>],
      [rating |-> "good", text |-> <<"g","o","o","d">>],
      [rating |-> "needs_improvement",
       text |-> <<"n","e","e","d","s","_","i","m","p","r","o","v","e","m","e","n","t">>],
      [rating |-> "inadequate", text |-> <<"i","n","a","d","e","q","u","a","t","e">>],
      [rating |-> "inadequate",
       text |-> <<"i","n","a","d","e","q","u","a","t","e",","," ","n","o","t"," ","g","o","o","d">>] }

InitialResponses == {"initial response"}
Revisions == {"revision A", "revision B"}

\* variant: only "excellent" in critique.lower()
Accepted_excellent_only(text) ==
    Contains(<<"e","x","c","e","l","l","e","n","t">>, Lower(text))

\* "excellent" in critique.lower() or "good" in critique.lower()
Accepted(text) ==
    \/ Contains(<<"e","x","c","e","l","l","e","n","t">>, Lower(text))
    \/ Contains(<<"g","o","o","d">>, Lower(text))

\* for iteration in range(max_iterations): is there a next pass after `it`
LoopContinues(it) == it + 1 < max_iterations

\* the dictionary returned after the loop
ReviewResult(response, initial, it, crit) ==
    [final_output |-> response,
     initial_response |-> initial,
     iterations_completed |-> it + 1,
     routing_method |-> "collaborative_review",
     final_critique |-> crit]

InitialOf == IF critiques = <<>> THEN current_response ELSE critiques[1].evaluated

\* collaborative_review entered: the first critic run is started
StartCollaborativeReview ==
    /\ op = "idle"
    /\ op' = "review" /\ pc' = "critic"
    /\ iteration' = 0
    /\ \E r \in InitialResponses : current_response' = r
    /\ UNCHANGED <<extVars, seqVars, toolVars, runVars, result, raised, parVars, critique, criticCalls,
                   improverCalls, critiques>>

\* the critic's run settles: on acceptance the loop breaks and the function
\* returns, otherwise the improver's run is started; a failed run raises
CriticSettles ==
    /\ op = "review" /\ pc = "critic"
    /\ criticCalls' = criticCalls + 1
    /\ \/ \E c \in Critiques :
             /\ critique' = c.text
             /\ critiques' = Append(critiques, [evaluated |-> current_response,
                                                 rating |-> c.rating, text |-> c.text])
             /\ IF Accepted(c.text)
                THEN /\ result' = ReviewResult(current_response, InitialOf, iteration, c.text)
                     /\ pc' = "returned"
                ELSE /\ pc' = "improver"
                     /\ UNCHANGED result
             /\ UNCHANGED raised
       \/ /\ raised' = "ModelError" /\ pc' = "raised"
          /\ UNCHANGED <<critique, critiques, result>>
    /\ UNCHANGED <<extVars, seqVars, toolVars, op, runVars, parVars, iteration, current_response, improverCalls>>

\* the improver's run settles: the next pass starts with the critic, or the
\* loop is exhausted and the function returns; a failed run raises
ImproverSettles ==
    /\ op = "review" /\ pc = "improver"
    /\ improverCalls' = improverCalls + 1
    /\ \/ \E r \in Revisions :
             /\ current_response' = r
             /\ IF LoopContinues(iteration)
                THEN /\ iteration' = iteration + 1
                     /\ pc' = "critic"
                     /\ UNCHANGED result
                ELSE /\ result' = ReviewResult(r, InitialOf, iteration, critique)
                     /\ pc' = "returned"
                     /\ UNCHANGED iteration
             /\ UNCHANGED raised
       \/ /\ raised' = "ModelError" /\ pc' = "raised"
          /\ UNCHANGED <<current_response, iteration, result>>
    /\ UNCHANGED <<extVars, seqVars, toolVars, op, runVars, parVars, critique, criticCalls, critiques>>

-----------------------------------------------------------------------------
(* agents/advanced/orchestration.py: sequential_chain *)

\* the three Runner.run calls, in the order the function body makes them
StageOrder_swapped == <<"analysis", "research", "recommendation">>

StageOrder == <<"research", "analysis", "recommendation">>

Started(k)     == [ev |-> "start",  stage |-> StageOrder[k]]
Completed(k)   == [ev |-> "done",   stage |-> StageOrder[k]]
StageFailed(k) == [ev |-> "failed", stage |-> StageOrder[k]]

\* texts the chain may be asked, and texts an agent of the chain may answer
ChainQueries == {<<"s", "t", "a", "i", "r", " ", "w", "i", "d", "t", "h">>, <<"f", "i", "r", "e", " ", "e", "g", "r", "e", "s", "s">>}
StageOutputs == {<<"N", "Z", "B", "C", " ", "C", "3">>, <<"t", "w", "o", " ", "e", "x", "i", "t", "s">>}

\* variant: the research output is left out of the analysis prompt
AnalysisInput_query_only(q, research) ==
    <<"O", "r", "i", "g", "i", "n", "a", "l", " ", "Q", "u", "e", "r", "y", ":", " ">> \o q \o <<"\n", "\n", "R", "e", "s", "e", "a", "r", "c", "h", " ", "R", "e", "s", "u", "l", "t", "s", ":", "\n">>

\* analysis_input = f"Original Query: {query}\n\nResearch Results:\n{research_output}"
AnalysisInput(q, research) ==
    <<"O", "r", "i", "g", "i", "n", "a", "l", " ", "Q", "u", "e", "r", "y", ":", " ">> \o q \o <<"\n", "\n", "R", "e", "s", "e", "a", "r", "c", "h", " ", "R", "e", "s", "u", "l", "t", "s", ":", "\n">> \o research

\* recommendation_input = f"Original Query: {query}\n\nResearch:\n{research_output}\n\nAnalysis:\n{analysis_output}"
RecommendationInput(q, research, analysis) ==
    <<"O", "r", "i", "g", "i", "n", "a", "l", " ", "Q", "u", "e", "r", "y", ":", " ">> \o q \o <<"\n", "\n", "R", "e", "s", "e", "a", "r", "c", "h", ":", "\n">> \o research
        \o <<"\n", "\n", "A", "n", "a", "l", "y", "s", "i", "s", ":", "\n">> \o analysis

\* sequential_chain entered: the research agent's run is started on the query
StartSequentialChain ==
    /\ op = "idle"
    /\ op' = "sequential" /\ pc' = "research"
    /\ \E q \in ChainQueries : query' = q
    /\ stage_log' = <<Started(1)>>
    /\ UNCHANGED <<extVars, orchVars, toolVars, result, raised, research_output, analysis_input,
                   analysis_output, recommendation_input>>

\* the research run settles: the analysis prompt is built and the analysis
\* agent's run started, or the exception leaves sequential_chain
ResearchSettles ==
    /\ op = "sequential" /\ pc = "research"
    /\ \/ \E out \in StageOutputs :
             /\ research_output' = out
             /\ analysis_input' = AnalysisInput(query, out)
             /\ stage_log' = stage_log \o <<Completed(1), Started(2)>>
             /\ pc' = "analysis"
             /\ UNCHANGED raised
       \/ /\ stage_log' = Append(stage_log, StageFailed(1))
          /\ raised' = "ModelError" /\ pc' = "raised"
          /\ UNCHANGED <<research_output, analysis_input>>
    /\ UNCHANGED <<extVars, op, orchVars, toolVars, result, query, analysis_output,
                   recommendation_input>>

\* the analysis run settles: the recommendation prompt is built and the
\* recommendation agent's run started, or the exception leaves sequential_chain
AnalysisSettles ==
    /\ op = "sequential" /\ pc = "analysis"
    /\ \/ \E out \in StageOutputs :
             /\ analysis_output' = out
             /\ recommendation_input' = RecommendationInput(query, research_output, out)
             /\ stage_log' = stage_log \o <<Completed(2), Started(3)>>
             /\ pc' = "recommendation"
             /\ UNCHANGED raised
       \/ /\ stage_log' = Append(stage_log, StageFailed(2))
          /\ raised' = "ModelError" /\ pc' = "raised"
          /\ UNCHANGED <<analysis_output, recommendation_input>>
    /\ UNCHANGED <<extVars, op, orchVars, toolVars, result, query, research_output,
                   analysis_input>>

\* the recommendation run settles: the result dictionary is returned, or the
\* exception leaves sequential_chain
RecommendationSettles ==
    /\ op = "sequential" /\ pc = "recommendation"
    /\ \/ \E out \in StageOutputs :
             /\ result' = [final_output |-> out,
                           research_phase |-> research_output,
                           analysis_phase |-> analysis_output,
                           routing_method |-> "sequential_chain",
                           chain_length |-> 3]
             /\ stage_log' = Append(stage_log, Completed(3))
             /\ pc' = "returned"
             /\ UNCHANGED raised
       \/ /\ stage_log' = Append(stage_log, StageFailed(3))
          /\ raised' = "ModelError" /\ pc' = "raised"
          /\ UNCHANGED result
    /\ UNCHANGED <<extVars, op, orchVars, toolVars, query, research_output, analysis_input,
                   analysis_output, recommendation_input>>

-----------------------------------------------------------------------------
(* core/tools/intent_classifier.py: IntentClassifier *)

\* _build_keyword_patterns: the registered domains with their keywords, in the
\* order of the dictionary literal (the order every iteration over it follows)
keyword_patterns ==
    <<
      [intent |-> "general_building",
       chars |-> <<"g", "e", "n", "e", "r", "a", "l", "_", "b", "u", "i", "l", "d", "i", "n", "g">>,
       keywords |-> <<<<"b", "u", "i", "l", "d", "i", "n", "g", " ", "c", "l", "a", "s", "s", "i", "f", "i", "c", "a", "t", "i", "o", "n">>,
                      <<"c", "l", "a", "s", "s", " ", "1">>,
                      <<"c", "l", "a", "s", "s", " ", "2">>,
                      <<"c", "l", "a", "s", "s", " ", "3">>,
                      <<"f", "i", "r", "e", " ", "s", "a", "f", "e", "t", "y">>,
                      <<"e", "g", "r", "e", "s", "s">>,
                      <<"s", "t", "r", "u", "c", "t", "u", "r", "a", "l">>,
                      <<"g", "e", "n", "e", "r", "a", "l", " ", "b", "u", "i", "l", "d", "i", "n", "g">>,
                      <<"b", "u", "i", "l", "d", "i", "n", "g", " ", "c", "o", "d", "e">>,
                      <<"c", "o", "m", "p", "l", "i", "a", "n", "c", "e">>,
                      <<"p", "e", "r", "m", "i", "t">>>>],
      [intent |-> "energy_efficiency",
       chars |-> <<"e", "n", "e", "r", "g", "y", "_", "e", "f", "f", "i", "c", "i", "e", "n", "c", "y">>,
       keywords |-> <<<<"e", "n", "e", "r", "g", "y">>,
                      <<"i", "n", "s", "u", "l", "a", "t", "i", "o", "n">>,
                      <<"r", "-", "v", "a", "l", "u", "e">>,
                      <<"t", "h", "e", "r", "m", "a", "l">>,
                      <<"h", "v", "a", "c", " ", "e", "f", "f", "i", "c", "i", "e", "n", "c", "y">>,
                      <<"e", "n", "e", "r", "g", "y", " ", "r", "a", "t", "i", "n", "g">>,
                      <<"s", "t", "a", "r", "s">>,
                      <<"t", "h", "e", "r", "m", "a", "l", " ", "p", "e", "r", "f", "o", "r", "m", "a", "n", "c", "e">>,
                      <<"g", "l", "a", "z", "i", "n", "g">>,
                      <<"w", "a", "l", "l", " ", "i", "n", "s", "u", "l", "a", "t", "i", "o", "n">>,
                      <<"r", "o", "o", "f", " ", "i", "n", "s", "u", "l", "a", "t", "i", "o", "n">>,
                      <<"t", "h", "e", "r", "m", "a", "l", " ", "b", "r", "i", "d", "g", "e">>>>],
      [intent |-> "building_envelope",
       chars |-> <<"b", "u", "i", "l", "d", "i", "n", "g", "_", "e", "n", "v", "e", "l", "o", "p", "e">>,
       keywords |-> <<<<"e", "n", "v", "e", "l", "o", "p", "e">>,
                      <<"w", "a", "l", "l">>,
                      <<"r", "o", "o", "f">>,
                      <<"f", "l", "o", "o", "r">>,
                      <<"w", "i", "n", "d", "o", "w">>,
                      <<"d", "o", "o", "r">>,
                      <<"w", "e", "a", "t", "h", "e", "r", "p", "r", "o", "o", "f", "i", "n", "g">>,
                      <<"m", "o", "i", "s", "t", "u", "r", "e">>,
                      <<"a", "i", "r", " ", "l", "e", "a", "k", "a", "g", "e">>,
                      <<"v", "e", "n", "t", "i", "l", "a", "t", "i", "o", "n">>,
                      <<"b", "u", "i", "l", "d", "i", "n", "g", " ", "f", "a", "b", "r", "i", "c">>,
                      <<"e", "x", "t", "e", "r", "n", "a", "l", " ", "w", "a", "l", "l">>,
                      <<"c", "e", "i", "l", "i", "n", "g">>>>],
      [intent |-> "mechanical_systems",
       chars |-> <<"m", "e", "c", "h", "a", "n", "i", "c", "a", "l", "_", "s", "y", "s", "t", "e", "m", "s">>,
       keywords |-> <<<<"m", "e", "c", "h", "a", "n", "i", "c", "a", "l">>,
                      <<"h", "v", "a", "c">>,
                      <<"h", "e", "a", "t", "i", "n", "g">>,
                      <<"c", "o", "o", "l", "i", "n", "g">>,
                      <<"v", "e", "n", "t", "i", "l", "a", "t", "i", "o", "n">>,
                      <<"a", "i", "r", " ", "c", "o", "n", "d", "i", "t", "i", "o", "n", "i", "n", "g">>,
                      <<"d", "u", "c", "t", "w", "o", "r", "k">>,
                      <<"b", "o", "i", "l", "e", "r">>,
                      <<"h", "e", "a", "t", " ", "p", "u", "m", "p">>,
                      <<"r", "e", "f", "r", "i", "g", "e", "r", "a", "t", "i", "o", "n">>,
                      <<"m", "e", "c", "h", "a", "n", "i", "c", "a", "l", " ", "e", "q", "u", "i", "p", "m", "e", "n", "t">>>>],
      [intent |-> "lighting",
       chars |-> <<"l", "i", "g", "h", "t", "i", "n", "g">>,
       keywords |-> <<<<"l", "i", "g", "h", "t", "i", "n", "g">>,
                      <<"a", "r", "t", "i", "f", "i", "c", "i", "a", "l", " ", "l", "i", "g", "h", "t", "i", "n", "g">>,
                      <<"n", "a", "t", "u", "r", "a", "l", " ", "l", "i", "g", "h", "t">>,
                      <<"d", "a", "y", "l", "i", "g", "h", "t">>,
                      <<"i", "l", "l", "u", "m", "i", "n", "a", "t", "i", "o", "n">>,
                      <<"l", "u", "x">>,
                      <<"l", "i", "g", "h", "t", "i", "n", "g", " ", "c", "o", "n", "t", "r", "o", "l">>,
                      <<"e", "m", "e", "r", "g", "e", "n", "c", "y", " ", "l", "i", "g", "h", "t", "i", "n", "g">>,
                      <<"e", "x", "i", "t", " ", "l", "i", "g", "h", "t", "i", "n", "g">>,
                      <<"l", "i", "g", "h", "t", " ", "f", "i", "x", "t", "u", "r", "e">>>>],
      [intent |-> "plumbing",
       chars |-> <<"p", "l", "u", "m", "b", "i", "n", "g">>,
       keywords |-> <<<<"p", "l", "u", "m", "b", "i", "n", "g">>,
                      <<"w", "a", "t", "e", "r">>,
                      <<"d", "r", "a", "i", "n", "a", "g", "e">>,
                      <<"s", "e", "w", "e", "r">>,
                      <<"p", "i", "p", "e">>,
                      <<"f", "i", "x", "t", "u", "r", "e">>,
                      <<"t", "a", "p">>,
                      <<"t", "o", "i", "l", "e", "t">>,
                      <<"b", "a", "s", "i", "n">>,
                      <<"w", "a", "t", "e", "r", " ", "s", "u", "p", "p", "l", "y">>,
                      <<"w", "a", "s", "t", "e", " ", "w", "a", "t", "e", "r">>,
                      <<"g", "r", "e", "y", "w", "a", "t", "e", "r">>,
                      <<"r", "a", "i", "n", "w", "a", "t", "e", "r">>,
                      <<"w", "a", "t", "e", "r", " ", "e", "f", "f", "i", "c", "i", "e", "n", "c", "y">>>>],
      [intent |-> "electrical",
       chars |-> <<"e", "l", "e", "c", "t", "r", "i", "c", "a", "l">>,
       keywords |-> <<<<"e", "l", "e", "c", "t", "r", "i", "c", "a", "l">>,
                      <<"w", "i", "r", "i", "n", "g">>,
                      <<"c", "i", "r", "c", "u", "i", "t">>,
                      <<"s", "w", "i", "t", "c", "h", "b", "o", "a", "r", "d">>,
                      <<"o", "u", "t", "l", "e", "t">>,
                      <<"p", "o", "w", "e", "r">>,
                      <<"e", "l", "e", "c", "t", "r", "i", "c", "i", "t", "y">>,
                      <<"e", "l", "e", "c", "t", "r", "i", "c", "a", "l", " ", "s", "a", "f", "e", "t", "y">>,
                      <<"r", "c", "d">>,
                      <<"r", "c", "b", "o">>,
                      <<"e", "l", "e", "c", "t", "r", "i", "c", "a", "l", " ", "i", "n", "s", "t", "a", "l", "l", "a", "t", "i", "o", "n">>,
                      <<"c", "a", "b", "l", "e">>,
                      <<"c", "o", "n", "d", "u", "i", "t">>>>],
      [intent |-> "accessibility",
       chars |-> <<"a", "c", "c", "e", "s", "s", "i", "b", "i", "l", "i", "t", "y">>,
       keywords |-> <<<<"a", "c", "c", "e", "s", "s", "i", "b", "i", "l", "i", "t", "y">>,
                      <<"d", "i", "s", "a", "b", "l", "e", "d", " ", "a", "c", "c", "e", "s", "s">>,
                      <<"w", "h", "e", "e", "l", "c", "h", "a", "i", "r">>,
                      <<"r", "a", "m", "p">>,
                      <<"a", "c", "c", "e", "s", "s", "i", "b", "l", "e", " ", "t", "o", "i", "l", "e", "t">>,
                      <<"h", "e", "a", "r", "i", "n", "g", " ", "l", "o", "o", "p">>,
                      <<"t", "a", "c", "t", "i", "l", "e">>,
                      <<"a", "c", "c", "e", "s", "s", "i", "b", "l", "e", " ", "p", "a", "r", "k", "i", "n", "g">>,
                      <<"d", "i", "s", "a", "b", "l", "e", "d", " ", "f", "a", "c", "i", "l", "i", "t", "i", "e", "s">>,
                      <<"u", "n", "i", "v", "e", "r", "s", "a", "l", " ", "d", "e", "s", "i", "g", "n">>,
                      <<"a", "d", "a">>>>] >>

Intents == {keyword_patterns[k].intent : k \in DOMAIN keyword_patterns}

\* characters the regular expression class \w accepts (ASCII, after lower())
WordChars ==
    {"a", "b", "c", "d", "e", "f", "g", "h", "i", "j", "k", "l", "m", "n", "o", "p",
     "q", "r", "s", "t", "u", "v", "w", "x", "y", "z",
     "0", "1", "2", "3", "4", "5", "6", "7", "8", "9", "_"}

IsWord(s, k) == k \in 1..Len(s) /\ s[k] \in WordChars

\* \b holds after the first p characters of s
WordBoundary(s, p) == IsWord(s, p) # IsWord(s, p + 1)

\* r'\b' + re.escape(keyword.lower()) + r'\b' matches s from its i-th character
MatchesAt(keyword, s, i) ==
    /\ i + Len(keyword) - 1 <= Len(s)
    /\ \A j \in 1..Len(keyword) : s[i + j - 1] = keyword[j]
    /\ WordBoundary(s, i - 1)
    /\ WordBoundary(s, i + Len(keyword) - 1)

\* len(re.findall(pattern, query_lower)): matches found from left to right,
\* the scan resuming where the last match ended
RECURSIVE FindallCount(_, _, _)
FindallCount(keyword, s, i) ==
    IF i + Len(keyword) - 1 > Len(s) THEN 0
    ELSE IF MatchesAt(keyword, s, i)
         THEN 1 + FindallCount(keyword, s, i + Len(keyword))
         ELSE FindallCount(keyword, s, i + 1)

\* score of one domain: the matches of its keywords k.., added up
RECURSIVE KeywordScore(_, _, _)
KeywordScore(keywords, query_lower, k) ==
    IF k > Len(keywords) THEN 0
    ELSE FindallCount(keywords[k], query_lower, 1)
             + KeywordScore(keywords, query_lower, k + 1)

\* intent_scores: the domains that scored, in registration order
intent_scores(query_lower) ==
    SelectSeq([k \in DOMAIN keyword_patterns |->
                  [intent |-> keyword_patterns[k].intent,
                   score |-> KeywordScore(keyword_patterns[k].keywords, query_lower, 1)]],
              LAMBDA e : e.score > 0)

\* variant: of the domains with the highest score the last one is taken
BestIntent_last_max(scores) ==
    CHOOSE i \in DOMAIN scores :
        /\ \A j \in DOMAIN scores : scores[j].score <= scores[i].score
        /\ \A j \in DOMAIN scores : j > i => scores[j].score < scores[i].score

\* max(intent_scores, key=intent_scores.get): the first key with the highest value
BestIntent(scores) ==
    CHOOSE i \in DOMAIN scores :
        /\ \A j \in DOMAIN scores : scores[j].score <= scores[i].score
        /\ \A j \in DOMAIN scores : j < i => scores[j].score < scores[i].score

\* variant: the minimum score threshold is 2
classify_by_keywords_threshold_two(q) ==
    LET scores == intent_scores(Lower(q))
    IN  IF scores # <<>> /\ scores[BestIntent(scores)].score >= 2
        THEN scores[BestIntent(scores)].intent
        ELSE "None"

\* IntentClassifier._classify_by_keywords
classify_by_keywords(q) ==
    LET scores == intent_scores(Lower(q))
    IN  IF scores # <<>> /\ scores[BestIntent(scores)].score >= 1
        THEN scores[BestIntent(scores)].intent
        ELSE "None"

Whitespace == {" ", "\n", "\t", "\r"}

RECURSIVE LStrip(_)
LStrip(s) == IF s # <<>> /\ Head(s) \in Whitespace THEN LStrip(Tail(s)) ELSE s

RECURSIVE RStrip(_)
RStrip(s) ==
    IF s # <<>> /\ s[Len(s)] \in Whitespace THEN RStrip(SubSeq(s, 1, Len(s) - 1)) ELSE s

\* str.strip()
Strip(s) == RStrip(LStrip(s))

\* what awaiting llm_client.generate may give: a text, None (a completion
\* without content), or an exception
LLMText(t) == [status |-> "ok", text |-> t]
LLMNone    == [status |-> "none"]
LLMExc(e)  == [status |-> "exc", exc |-> e]

\* variant: an answer that is no registered domain's name is passed on as "unknown"
classify_by_llm_unvalidated(r) ==
    IF r.status # "ok" THEN Returned("general_building")
    ELSE IF \E k \in DOMAIN keyword_patterns : keyword_patterns[k].chars = Lower(Strip(r.text))
    THEN Returned(keyword_patterns[CHOOSE k \in DOMAIN keyword_patterns :
                                      keyword_patterns[k].chars = Lower(Strip(r.text))].intent)
    ELSE Returned("unknown")

\* IntentClassifier._classify_by_llm after the await: response.strip() on None
\* raises inside the try, as a failed call does
classify_by_llm(r) ==
    IF r.status # "ok" THEN Returned("general_building")
    ELSE LET intent  == Lower(Strip(r.text))
             exact   == {k \in DOMAIN keyword_patterns : keyword_patterns[k].chars = intent}
             partial == {k \in DOMAIN keyword_patterns :
                            \/ Contains(keyword_patterns[k].chars, intent)
                            \/ Contains(intent, keyword_patterns[k].chars)}
         IN  IF exact # {}
             THEN Returned(keyword_patterns[CHOOSE k \in exact : TRUE].intent)
             ELSE IF partial # {}
             THEN Returned(keyword_patterns[CHOOSE k \in partial :
                                               \A m \in partial : k <= m].intent)
             ELSE Returned("general_building")

\* IntentClassifier.classify: try: ... except Exception: return "general_building"
classify(out) == IF out.kind = "raise" THEN "general_building" ELSE out.value

\* queries put to the classifier
ClassifierQueries ==
    {<<"e", "g", "r", "e", "s", "s", " ", "w", "i", "d", "t", "h">>,
     <<"p", "o", "w", "e", "r", "f", "u", "l", " ", "p", "u", "m", "p", "s">>,
     <<"e", "n", "e", "r", "g", "y", " ", "f", "o", "r", " ", "t", "h", "e", " ", "r", "o", "o", "f", " ", "a", "n", "d", " ", "w", "a", "l", "l">>,
     <<"l", "i", "g", "h", "t", "i", "n", "g", " ", "a", "n", "d", " ", "p", "l", "u", "m", "b", "i", "n", "g">>,
     <<"p", "l", "u", "m", "b", "i", "n", "g", " ", "a", "n", "d", " ", "l", "i", "g", "h", "t", "i", "n", "g">>,
     <<"w", "a", "t", "e", "r", ",", " ", "w", "a", "t", "e", "r", " ", "a", "n", "d", " ", "l", "i", "g", "h", "t", "i", "n", "g">>,
     <<"H", "V", "A", "C", " ", "H", "e", "a", "t", "i", "n", "g">>,
     <<"w", "a", "l", "l", " ", "i", "n", "s", "u", "l", "a", "t", "i", "o", "n">>,
     <<"v", "e", "n", "t", "i", "l", "a", "t", "i", "o", "n">>,
     <<"m", "e", "a", "n", "i", "n", "g", " ", "o", "f", " ", "l", "i", "f", "e">>,
     <<>>}

\* what the model call of the fallback may give
LLMResponses ==
    {LLMText(<<"p", "l", "u", "m", "b", "i", "n", "g">>),
     LLMText(<<" ", "P", "l", "u", "m", "b", "i", "n", "g", "\n">>),
     LLMText(<<"t", "h", "e", " ", "c", "a", "t", "e", "g", "o", "r", "y", " ", "i", "s", " ", "l", "i", "g", "h", "t", "i", "n", "g">>),
     LLMText(<<"l", "i", "g", "h", "t">>),
     LLMText(<<"i", " ", "d", "o", " ", "n", "o", "t", " ", "k", "n", "o", "w">>),
     LLMText(<<>>),
     LLMNone,
     LLMExc("timeout"),
     LLMExc("quota")}

\* classify entered: the keyword phase runs; it decides, or the model call of
\* the fallback is started
StartClassify ==
    /\ op = "idle"
    /\ op' = "classify"
    /\ \E q \in ClassifierQueries :
          /\ query' = q
          /\ keyword_intent' = classify_by_keywords(q)
          /\ IF classify_by_keywords(q) # "None"
             THEN /\ result' = classify(Returned(classify_by_keywords(q)))
                  /\ pc' = "returned"
                  /\ UNCHANGED llmCalls
             ELSE /\ llmCalls' = llmCalls + 1
                  /\ pc' = "llm"
                  /\ UNCHANGED result
    /\ UNCHANGED <<extVars, orchVars, raised, stage_log, research_output, analysis_input,
                   analysis_output, recommendation_input, llm_response, vecVars,
                   ctxVars, agtVars>>

\* the model call of the fallback settles and classify returns
LLMClassificationSettles ==
    /\ op = "classify" /\ pc = "llm"
    /\ \E r \in LLMResponses :
          /\ llm_response' = r
          /\ result' = classify(classify_by_llm(r))
    /\ pc' = "returned"
    /\ UNCHANGED <<extVars, op, orchVars, raised, seqVars, keyword_intent, llmCalls, vecVars,
                   ctxVars, agtVars>>

-----------------------------------------------------------------------------
(* infrastructure/vector_db/client.py: VectorDBClient;                         *)
(* agents/tools.py: vector_search_core, get_building_code_context_core.        *)
(* Similarity scores are kept in hundredths (0.95 is 95).                      *)

\* content[:100]: the number of characters hashed
PrefixLength == 100

Take(s, n) == SubSeq(s, 1, IF Len(s) < n THEN Len(s) ELSE n)

LongPrefix == [i \in 1..PrefixLength |-> "x"]

\* rows the match_documents procedure may give
RowA1 == [content |-> LongPrefix \o <<" ", "a", "l", "p", "h", "a">>, similarity |-> 80,
          source |-> "NZBC", section |-> "C3.1"]
RowA2 == [content |-> LongPrefix \o <<" ", "b", "e", "t", "a">>, similarity |-> 95,
          source |-> "NZBC", section |-> "C3.2"]
RowB1 == [content |-> <<"s", "h", "o", "r", "t", " ", "p", "a", "s", "s", "a", "g", "e">>, similarity |-> 90,
          source |-> "NZBC", section |-> "D1"]
RowB2 == [content |-> <<"s", "h", "o", "r", "t", " ", "p", "a", "s", "s", "a", "g", "e">>, similarity |-> 75,
          source |-> "Handbook", section |-> "4"]

\* what one search meets at the vector database: the client cannot be built,
\* the search procedure fails, or it gives rows (best match first, at most
\* the 3 that get_building_code_context_core asks for)
ConstructFailed(e) == [status |-> "construct_failed", error |-> e]
RpcFailed(e)       == [status |-> "rpc_failed", error |-> e]
RpcOk(rows)        == [status |-> "ok", rows |-> rows]

BackendOutcomes ==
    {ConstructFailed(<<"n", "o", " ", "u", "r", "l">>), RpcFailed(<<"t", "i", "m", "e", "o", "u", "t">>),
     RpcOk(<<>>), RpcOk(<<RowA1>>), RpcOk(<<RowA2>>), RpcOk(<<RowA2, RowA1>>),
     RpcOk(<<RowB1>>), RpcOk(<<RowB1, RowB2>>), RpcOk(<<RowA2, RowB1, RowA1>>)}

ClauseTypes == {"code_b", "None"}

\* VectorDBClient.similarity_search after the client was built: the rows as
\* documents, or [] from its except branch
similarity_search(outcome, clause_type) ==
    IF outcome.status = "ok"
    THEN [k \in DOMAIN outcome.rows |->
             [content |-> outcome.rows[k].content,
              similarity_score |-> outcome.rows[k].similarity,
              metadata |-> [source |-> outcome.rows[k].source,
                            clause_type |-> clause_type,
                            section |-> outcome.rows[k].section]]]
    ELSE <<>>

\* the passage vector_search_core returns from its except branch
ErrorPassage(e, clause_type) ==
    [content |-> <<"V", "e", "c", "t", "o", "r", " ", "s", "e", "a", "r", "c", "h", " ", "f", "a", "i", "l", "e", "d", ":", " ">> \o e,
     source |-> "error",
     section |-> "error",
     clause |-> IF clause_type # "None" THEN clause_type ELSE "unknown",
     similarity_score |-> 0,
     metadata |-> [error |-> TRUE]]

\* vector_search_core: formatted_results, or the error passage
vector_search_core(outcome, clause_type) ==
    IF outcome.status = "construct_failed"
    THEN <<ErrorPassage(outcome.error, clause_type)>>
    ELSE LET results == similarity_search(outcome, clause_type)
         IN  [k \in DOMAIN results |->
                 [content |-> results[k].content,
                  source |-> results[k].metadata.source,
                  section |-> results[k].metadata.section,
                  clause |-> IF clause_type # "None" THEN clause_type ELSE "",
                  similarity_score |-> results[k].similarity_score,
                  metadata |-> results[k].metadata]]

\* vector_search_core entered: VectorDBClient() is built, or its failure is
\* answered with the error passage
StartVectorSearch ==
    /\ op = "idle"
    /\ op' = "vector_search"
    /\ \/ \E o \in {b \in BackendOutcomes : b.status = "construct_failed"} :
          \E c \in ClauseTypes :
             /\ backend' = o
             /\ result' = vector_search_core(o, c)
             /\ pc' = "returned"
       \/ /\ backend' = [status |-> "constructed"]
          /\ pc' = "search"
          /\ UNCHANGED result
    /\ UNCHANGED <<extVars, orchVars, raised, seqVars, clsVars, ctxVars, agtVars>>

\* the match_documents call settles and vector_search_core returns
VectorSearchSettles ==
    /\ op = "vector_search" /\ pc = "search"
    /\ \E o \in {b \in BackendOutcomes : b.status # "construct_failed"} :
       \E c \in ClauseTypes :
          /\ backend' = o
          /\ result' = vector_search_core(o, c)
    /\ pc' = "returned"
    /\ UNCHANGED <<extVars, op, orchVars, raised, seqVars, clsVars, ctxVars, agtVars>>

\* hash(result["content"][:100]): equal prefixes have equal hashes
content_hash(content) == Take(content, PrefixLength)

\* the deduplication loop over all_results[i..]
RECURSIVE Deduplicate(_, _, _, _)
Deduplicate(all, i, seen_content, unique_results) ==
    IF i > Len(all) THEN unique_results
    ELSE IF content_hash(all[i].content) \notin seen_content
         THEN Deduplicate(all, i + 1, seen_content \cup {content_hash(all[i].content)},
                          Append(unique_results, all[i]))
         ELSE Deduplicate(all, i + 1, seen_content, unique_results)

\* the dictionary get_building_code_context_core returns
ContextResult(ts, clause_type, all) ==
    LET unique_results == Deduplicate(all, 1, {}, <<>>)
    IN  [topics_researched |-> ts,
         clause_type |-> clause_type,
         total_sources |-> Len(unique_results),
         results |-> Take(unique_results, 10)]

TopicLists == {<<"fire safety">>, <<"fire safety", "egress">>}

\* get_building_code_context_core entered
StartContext ==
    /\ op = "idle"
    /\ op' = "context" /\ pc' = "searching"
    /\ \E ts \in TopicLists : topics' = ts
    /\ all_results' = <<>> /\ searched' = 0
    /\ UNCHANGED <<extVars, orchVars, result, raised, seqVars, clsVars, vecVars, agtVars>>

\* the search for the next topic settles; after the last topic the passages
\* are deduplicated and the dictionary is returned
TopicSearchSettles ==
    /\ op = "context" /\ pc = "searching" /\ searched < Len(topics)
    /\ \E o \in BackendOutcomes :
          LET all == all_results \o vector_search_core(o, "code_b")
          IN  /\ all_results' = all
              /\ searched' = searched + 1
              /\ IF searched + 1 = Len(topics)
                 THEN /\ result' = ContextResult(topics, "code_b", all)
                      /\ pc' = "returned"
                 ELSE UNCHANGED <<result, pc>>
    /\ UNCHANGED <<extVars, op, orchVars, raised, seqVars, clsVars, vecVars, topics, agtVars>>

-----------------------------------------------------------------------------
(* core/agents/base.py: BaseAgent; core/agents/code_*/agent.py: process_query *)

\* the apology in the except branch of each specialist's process_query
ProcessingErrorMessage ==
    [code_b |-> "I encountered an error processing your building code query. Please try again.",
     code_c |-> "I encountered an error processing your energy efficiency query. Please try again.",
     code_d |-> "I encountered an error processing your mechanical systems query. Please try again.",
     code_e |-> "I encountered an error processing your lighting query. Please try again.",
     code_f |-> "I encountered an error processing your plumbing query. Please try again.",
     code_g |-> "I encountered an error processing your electrical systems query. Please try again.",
     code_h |-> "I encountered an error processing your accessibility query. Please try again."]

GenerationErrorMessage == "I encountered an error generating a response. Please try again."

\* what the model call of generate_response may give
SpecialistLLMOutcomes ==
    {LLMText(<<"C", "l", "a", "s", "s", " ", "1", " ", "b", "u", "i", "l", "d", "i", "n", "g", "s", " ", "a", "r", "e", " ", "h", "o", "u", "s", "e", "s", ".">>), LLMNone, LLMExc("timeout"), LLMExc("quota")}

\* BaseAgent.retrieve_context: the documents, or [] when the client cannot be
\* built or the search fails
retrieve_context(outcome, clause_type) ==
    IF outcome.status = "construct_failed" THEN Returned(<<>>)
    ELSE Returned(similarity_search(outcome, clause_type))

\* BaseAgent.generate_response: the text, or the apology of its except branch
\* (len(response) on a None answer raises inside the try)
generate_response(r) ==
    IF r.status = "ok" THEN Returned(r.text) ELSE Returned(GenerationErrorMessage)

\* process_query of a specialist: try: ... return {...} except Exception: return {...}
process_query(a, retrieved, generated) ==
    IF retrieved.kind = "raise" \/ generated.kind = "raise"
    THEN [response |-> ProcessingErrorMessage[a],
          sources |-> <<>>,
          agent_type |-> a,
          error |-> IF retrieved.kind = "raise" THEN retrieved.exc ELSE generated.exc]
    ELSE [response |-> generated.value,
          sources |-> retrieved.value,
          agent_type |-> a]

\* process_query of one of the specialists entered: retrieval is started
StartSpecialistQuery ==
    /\ op = "idle"
    /\ op' = "specialist" /\ pc' = "retrieve"
    /\ \E a \in Range(AgentTypes) : specialist' = a
    /\ UNCHANGED <<extVars, orchVars, result, raised, seqVars, clsVars, vecVars, ctxVars,
                   context, llm>>

\* retrieve_context settles and the model call of generate_response is started
RetrieveContextSettles ==
    /\ op = "specialist" /\ pc = "retrieve"
    /\ \E o \in BackendOutcomes :
          /\ backend' = o
          /\ context' = retrieve_context(o, specialist)
    /\ pc' = "generate"
    /\ UNCHANGED <<extVars, op, orchVars, result, raised, seqVars, clsVars, ctxVars,
                   specialist, llm>>

\* the model call settles, generate_response and process_query return
GenerateResponseSettles ==
    /\ op = "specialist" /\ pc = "generate"
    /\ \E r \in SpecialistLLMOutcomes :
          /\ llm' = r
          /\ result' = process_query(specialist, context, generate_response(r))
    /\ pc' = "returned"
    /\ UNCHANGED <<extVars, op, orchVars, raised, seqVars, clsVars, vecVars, ctxVars,
                   specialist, context>>

-----------------------------------------------------------------------------
(* agents/specifications.py: get_agent_spec;                                   *)
(* agents/pure_orchestrator.py: PureSDKOrchestrator.get_specialist_directly    *)

\* agent types a caller may ask for: the registered ones and one that is not
LookupTypes == Range(AgentTypes) \cup {"code_z"}

\* the keys of self.specialists
RegisteredSpecialists == DOMAIN PureHandoffs

\* the dictionaries get_specialist_directly returns after the run settled
DirectResult(t, run) ==
    IF run.status = "exc"
    THEN [final_output |-> <<"I encountered an error processing your ", t,
                             " query. Please try again.">>,
          last_agent |-> t,
          routing_method |-> "direct_specialist_error",
          error |-> run.exc,
          error_type |-> run.exc,
          specialist_type |-> t,
          orchestrator_type |-> "pure_sdk",
          success |-> FALSE]
    ELSE [final_output |-> run.final_output,
          last_agent |-> AgentName(run.last_agent),
          routing_method |-> "direct_specialist",
          specialist_type |-> t,
          orchestrator_type |-> "pure_sdk",
          success |-> TRUE]

\* get_agent_spec called by a caller of the registry
LookupAgentSpec ==
    /\ op = "idle"
    /\ op' = "lookup" /\ pc' = "returned"
    /\ \E t \in LookupTypes :
          /\ specialist' = t
          /\ result' = get_agent_spec(t)
    /\ UNCHANGED <<extVars, orchVars, raised, seqVars, clsVars, vecVars, ctxVars, context, llm>>

\* get_specialist_directly entered: an unknown type raises ValueError,
\* otherwise the specialist's run is started
StartSpecialistDirectly ==
    /\ op = "idle"
    /\ op' = "direct"
    /\ \E t \in LookupTypes :
          /\ specialist' = t
          /\ IF t \notin RegisteredSpecialists
             THEN /\ raised' = "ValueError" /\ pc' = "raised"
                  /\ UNCHANGED specialistRuns
             ELSE /\ specialistRuns' = specialistRuns + 1 /\ pc' = "direct_run"
                  /\ UNCHANGED raised
    /\ UNCHANGED <<extVars, current, turn, chain, inGuard, outGuard, answer, toolCalls, runOut,
                   parVars, revVars, result, seqVars, clsVars, vecVars, ctxVars,
                   context, llm>>

\* the specialist's run settles and get_specialist_directly returns
DirectRunSettles ==
    /\ op = "direct" /\ pc = "direct_run"
    /\ \E run \in {RunOk(a, specialist) : a \in RawAnswers}
                     \cup {RunExc("ModelError"), RunExc("InputGuardrailTripwireTriggered")} :
          /\ runOut' = run
          /\ result' = DirectResult(specialist, run)
    /\ pc' = "returned"
    /\ UNCHANGED <<extVars, op, current, turn, chain, inGuard, outGuard, answer, specialistRuns,
                   toolCalls, parVars, revVars, raised, seqVars, toolVars>>

-----------------------------------------------------------------------------
(* agents/pure_sdk.py: the module-level cache of specialists and triage agent. *)
(* The three functions contain no await, so on the event loop each call runs    *)
(* to its end before another request's call starts.  Objects are told apart by  *)
(* the number under which they were constructed.                                *)

\* calls recorded before the log is closed
MaxCacheCalls == 4

\* the module globals as one value
Cache == [specialists |-> specialists_cache, triage |-> triage_cache, objects |-> objects]

\* variant: the cached mapping is ignored and a new one constructed on every call
get_pure_sdk_specialists_uncached(c) ==
    [c EXCEPT !.specialists = <<c.objects + 1>>, !.objects = c.objects + 1]

\* get_pure_sdk_specialists: the globals after the call; the mapping returned
\* is the one then cached
get_pure_sdk_specialists(c) ==
    IF c.specialists = <<>>
    THEN [c EXCEPT !.specialists = <<c.objects + 1>>, !.objects = c.objects + 1]
    ELSE c

\* create_triage_agent(specialists): a new agent whose handoffs are the
\* agents of the mapping it was given
create_triage_agent(id, specialists) == [id |-> id, handoffs |-> specialists]

\* get_pure_sdk_triage: the globals after the call
get_pure_sdk_triage(c) ==
    IF c.triage = <<>>
    THEN LET c1 == get_pure_sdk_specialists(c)
         IN  [c1 EXCEPT !.triage = <<create_triage_agent(c1.objects + 1, c1.specialists[1])>>,
                        !.objects = c1.objects + 1]
    ELSE c

\* variant: only the specialists are forgotten
reset_pure_sdk_cache_specialists_only(c) == [c EXCEPT !.specialists = <<>>]

\* reset_pure_sdk_cache
reset_pure_sdk_cache(c) == [c EXCEPT !.specialists = <<>>, !.triage = <<>>]

\* a call as recorded: what it returned and which objects it constructed
CacheCall(name, before, after, returned) ==
    [call |-> name,
     returned |-> returned,
     built_specialists |-> after.specialists # <<>> /\ after.specialists # before.specialists,
     built_triage |-> after.triage # <<>> /\ after.triage # before.triage]

CacheOpen(n) == op \in {"idle", "cache"} /\ Len(cache_log) + n <= MaxCacheCalls

SetCache(c) ==
    /\ specialists_cache' = c.specialists
    /\ triage_cache' = c.triage
    /\ objects' = c.objects

GetPureSdkSpecialists ==
    /\ CacheOpen(1)
    /\ op' = "cache" /\ pc' = "returned"
    /\ LET c == get_pure_sdk_specialists(Cache)
       IN  /\ SetCache(c)
           /\ cache_log' = Append(cache_log,
                  CacheCall("get_pure_sdk_specialists", Cache, c, c.specialists[1]))
    /\ UNCHANGED <<orchVars, seqVars, toolVars, result, raised, orcVars, method, hung,
                   run_contexts>>

GetPureSdkTriage ==
    /\ CacheOpen(1)
    /\ op' = "cache" /\ pc' = "returned"
    /\ LET c == get_pure_sdk_triage(Cache)
       IN  /\ SetCache(c)
           /\ cache_log' = Append(cache_log,
                  CacheCall("get_pure_sdk_triage", Cache, c, c.triage[1].id))
    /\ UNCHANGED <<orchVars, seqVars, toolVars, result, raised, orcVars, method, hung,
                   run_contexts>>

ResetPureSdkCache ==
    /\ CacheOpen(1)
    /\ op' = "cache" /\ pc' = "returned"
    /\ LET c == reset_pure_sdk_cache(Cache)
       IN  /\ SetCache(c)
           /\ cache_log' = Append(cache_log, CacheCall("reset_pure_sdk_cache", Cache, c, 0))
    /\ UNCHANGED <<orchVars, seqVars, toolVars, result, raised, orcVars, method, hung,
                   run_contexts>>

\* PureSDKOrchestrator.__init__ of one request: both getters, one after the other
ConstructPureSDKOrchestrator ==
    /\ CacheOpen(2)
    /\ op' = "cache" /\ pc' = "returned"
    /\ LET c1 == get_pure_sdk_specialists(Cache)
           c2 == get_pure_sdk_triage(c1)
       IN  /\ SetCache(c2)
           /\ cache_log' = cache_log \o
                  << CacheCall("get_pure_sdk_specialists", Cache, c1, c1.specialists[1]),
                     CacheCall("get_pure_sdk_triage", c1, c2, c2.triage[1].id) >>
    /\ UNCHANGED <<orchVars, seqVars, toolVars, result, raised, orcVars, method, hung,
                   run_contexts>>

-----------------------------------------------------------------------------
(* agents/advanced/orchestration.py: run_advanced_orchestration, method 'review' *)

\* method == "review": an AdvancedOrchestrator is made and its process_query
\* is awaited for the initial response
StartRunAdvancedOrchestration ==
    /\ op = "idle"
    /\ method' = "review"
    /\ op' = "advanced" /\ pc' = "running"
    /\ current' = Triage /\ inGuard' = "pending" /\ outGuard' = "pending"
    /\ UNCHANGED <<cacheVars, orcVars, hung, run_contexts, seqVars, toolVars, turn, chain, answer,
                   specialistRuns, toolCalls, runOut, result, raised, parVars, revVars>>

\* initial = await orchestrator.process_query(...) has returned a dictionary:
\* collaborative_review is awaited next, whatever the dictionary holds
ReviewProceeds(initial) == TRUE

\* process_query has returned: collaborative_review(query, initial["final_output"])
\* is entered and its first critic run started (an exception of process_query
\* leaves run_advanced_orchestration instead)
ReviewOfInitialStarts ==
    /\ op = "advanced" /\ method = "review" /\ pc = "returned"
    /\ ReviewProceeds(result)
    /\ op' = "review" /\ pc' = "critic"
    /\ iteration' = 0
    /\ current_response' = result.final_output
    /\ UNCHANGED <<cacheVars, orcVars, method, hung, run_contexts, seqVars, toolVars, runVars, result,
                   raised, parVars, critique, criticCalls, improverCalls, critiques>>

-----------------------------------------------------------------------------
(* core/agents/orchestrator/agent.py: OrchestratorAgent, a LangGraph state graph *)
(* A field of OrchestratorState that may be None is <<>> for None and <<v>>     *)
(* for the value v.                                                              *)

None == <<>>
Some(v) == <<v>>

\* OrchestratorState(query=..., session_id=..., user_id=...)
OrchestratorState ==
    [intent |-> None, specialist_agent |-> None, response |-> None, sources |-> <<>>,
     error |-> None]

\* what self.intent_classifier.classify gives _classify_intent: the shipped
\* IntentClassifier returns a registered intent and catches its own
\* exceptions; the attribute can hold another classifier, which may return
\* another label or raise
ClassifierOutcomes ==
    {Returned(i) : i \in Intents \cup {"fire_safety"}} \cup {Raise("ClassifierError")}

\* _classify_intent: the update the node returns
classify_intent(out) ==
    IF out.kind = "return"
    THEN [intent |-> Some(out.value)]
    ELSE [error |-> Some("Intent classification failed")]

specialist_mapping ==
    [energy_efficiency |-> "code_c",
     building_envelope |-> "code_c",
     mechanical_systems |-> "code_d",
     lighting |-> "code_e",
     plumbing |-> "code_f",
     electrical |-> "code_g",
     accessibility |-> "code_h",
     general_building |-> "code_b"]

\* _should_route_to_specialist
should_route_to_specialist(st) ==
    IF st.error # None THEN "general"
    ELSE IF st.intent # None /\ st.intent[1] \in DOMAIN specialist_mapping THEN "specialist"
    ELSE "general"

\* the conditional edge of classify_intent
EdgeTargets == [specialist |-> "route_to_specialist", general |-> "handle_general_query"]

\* the graph merges a node's update into the state
Merge(st, update) ==
    [f \in DOMAIN st |-> IF f \in DOMAIN update THEN update[f] ELSE st[f]]

\* importing and constructing an agent class succeeds or raises
LoadOutcomes == {"ok", "fail"}

\* _get_specialist_agent: the class of the agent it returns; when loading the
\* requested class raises, the except branch loads CodeBAgent, and an
\* exception of that load leaves the function
get_specialist_agent(specialist_type, load, fallback) ==
    IF load = "ok"
    THEN Returned(IF specialist_type \in Range(AgentTypes) THEN specialist_type ELSE "code_b")
    ELSE IF fallback = "ok" THEN Returned("code_b")
    ELSE Raise("ImportError")

\* specialist_mapping.get(state.intent, "code_b")
MappedSpecialist(st) ==
    IF st.intent # None /\ st.intent[1] \in DOMAIN specialist_mapping
    THEN specialist_mapping[st.intent[1]]
    ELSE "code_b"

\* _route_to_specialist: the update the node returns
route_to_specialist(st, agent, o, r) ==
    IF agent.kind = "raise"
    THEN [error |-> Some("Specialist routing failed")]
    ELSE LET res == process_query(agent.value, retrieve_context(o, agent.value),
                                  generate_response(r))
         IN  [specialist_agent |-> Some(MappedSpecialist(st)),
              response |-> Some(res.response),
              sources |-> res.sources]

NoInformationMessage == "I couldn't find specific information about your query. Could you please rephrase or be more specific?"

\* _generate_general_response
generate_general_response(results) ==
    IF results = <<>> THEN NoInformationMessage
    ELSE <<"Based on the available information", Take(results[1].content, 200)>>

\* _handle_general_query: the update the node returns; VectorDBClient() is
\* constructed inside the try
handle_general_query(o) ==
    IF o.status = "construct_failed"
    THEN [error |-> Some("General query handling failed")]
    ELSE LET results == similarity_search(o, "None")
         IN  [response |-> Some(generate_general_response(results)),
              sources |-> results,
              specialist_agent |-> Some("general")]

OrchestratorErrorMessage == "I encountered an error processing your query. Please try again."

\* what graph.ainvoke returns: a mapping (it has .get, and no attribute
\* `error`) or a model object
GraphResultKinds == {"mapping", "model"}

\* the part of process_query after the graph has run; result.error of the
\* logging call raises AttributeError on a mapping, which the outer except
\* turns into the same answer with the exception's text as error
OrchestratorResult(st, kind) ==
    IF st.error # None
    THEN [response |-> OrchestratorErrorMessage,
          sources |-> <<>>,
          agent_used |-> "orchestrator",
          error |-> IF kind = "mapping" THEN "AttributeError" ELSE st.error[1]]
    ELSE [response |-> IF st.response = None THEN "" ELSE st.response[1],
          sources |-> st.sources,
          agent_used |-> IF st.specialist_agent = None THEN "orchestrator"
                         ELSE st.specialist_agent[1]]

OrcUnchanged == <<cacheVars, method, hung, run_contexts, orchVars, seqVars, toolVars, raised>>

\* process_query entered: the graph starts at its entry point
StartOrchestratorQuery ==
    /\ op = "idle"
    /\ op' = "orchestrator" /\ pc' = "classify_intent"
    /\ state' = OrchestratorState
    /\ graph_path' = <<>>
    /\ UNCHANGED <<OrcUnchanged, result, executed>>

\* node classify_intent, then the conditional edge
ClassifyIntentNode ==
    /\ op = "orchestrator" /\ pc = "classify_intent"
    /\ \E out \in ClassifierOutcomes :
          LET st == Merge(state, classify_intent(out))
          IN  /\ state' = st
              /\ pc' = EdgeTargets[should_route_to_specialist(st)]
    /\ graph_path' = Append(graph_path, "classify_intent")
    /\ UNCHANGED <<OrcUnchanged, op, result, executed>>

\* node route_to_specialist, then END
RouteToSpecialistNode ==
    /\ op = "orchestrator" /\ pc = "route_to_specialist"
    /\ \E load \in LoadOutcomes, fallback \in LoadOutcomes,
          o \in BackendOutcomes, r \in SpecialistLLMOutcomes :
          LET agent == get_specialist_agent(MappedSpecialist(state), load, fallback)
          IN  /\ state' = Merge(state, route_to_specialist(state, agent, o, r))
              /\ executed' = [agent |-> IF agent.kind = "return" THEN agent.value ELSE "none",
                              loaded |-> IF load = "ok" THEN "requested"
                                         ELSE IF fallback = "ok" THEN "fallback" ELSE "failed"]
    /\ graph_path' = Append(graph_path, "route_to_specialist")
    /\ pc' = "END"
    /\ UNCHANGED <<OrcUnchanged, op, result>>

\* node handle_general_query, then END
HandleGeneralQueryNode ==
    /\ op = "orchestrator" /\ pc = "handle_general_query"
    /\ \E o \in BackendOutcomes : state' = Merge(state, handle_general_query(o))
    /\ executed' = [agent |-> "general", loaded |-> "none"]
    /\ graph_path' = Append(graph_path, "handle_general_query")
    /\ pc' = "END"
    /\ UNCHANGED <<OrcUnchanged, op, result>>

\* graph.ainvoke has returned: process_query builds its answer
OrchestratorReturns ==
    /\ op = "orchestrator" /\ pc = "END"
    /\ \E kind \in GraphResultKinds : result' = OrchestratorResult(state, kind)
    /\ pc' = "returned"
    /\ UNCHANGED <<OrcUnchanged, op, orcVars>>

-----------------------------------------------------------------------------

Next ==
    \/ StartProcessQuery("advanced")
    \/ StartProcessQuery("pure")
    \/ InputGuardrailSettles
    \/ InputTripwireRaises
    \/ TurnAnswers
    \/ TurnHandsOff
    \/ TurnCallsTool
    \/ TurnFails
    \/ MaxTurnsExceeded
    \/ OutputGuardrailSettles
    \/ AdvancedReturns
    \/ PureReturns
    \/ StartParallelAnalysis
    \/ \E i \in Perspectives : PerspectiveSettles(i)
    \/ GatherReturns
    \/ ConsensusSettles
    \/ StartCollaborativeReview
    \/ CriticSettles
    \/ ImproverSettles
    \/ StartSequentialChain
    \/ ResearchSettles
    \/ AnalysisSettles
    \/ RecommendationSettles
    \/ StartClassify
    \/ LLMClassificationSettles
    \/ StartVectorSearch
    \/ VectorSearchSettles
    \/ StartContext
    \/ TopicSearchSettles
    \/ StartSpecialistQuery
    \/ RetrieveContextSettles
    \/ GenerateResponseSettles
    \/ LookupAgentSpec
    \/ StartSpecialistDirectly
    \/ DirectRunSettles
    \/ \E i \in Perspectives : PerspectiveHangs(i)
    \/ StartRunAdvancedOrchestration
    \/ ReviewOfInitialStarts
    \/ StartOrchestratorQuery
    \/ ClassifyIntentNode
    \/ RouteToSpecialistNode
    \/ HandleGeneralQueryNode
    \/ OrchestratorReturns
    \/ GetPureSdkSpecialists
    \/ GetPureSdkTriage
    \/ ResetPureSdkCache
    \/ ConstructPureSDKOrchestrator

Spec == Init /\ [][Next]_vars

\* the event loop runs whatever step is ready: a run that can go on does
FairSpec == Spec /\ WF_vars(Next)


-----------------------------------------------------------------------------
(* Properties *)

\* specialist-to-specialist handoffs of the run: the chain without the triage routing
Hops == IF chain = <<>> THEN 0 ELSE Len(chain) - 1

\* C1: when the input guard's verdict is "not a building-code query",
\* AdvancedOrchestrator.process_query returns (never raises) a result whose error is
\* 'input_guardrail_triggered' and whose final_output is the fixed out-of-scope
\* message, and no specialist model call and no retrieval call is made in that run.
C1_InputGuardTripRefuses ==
    (op = "advanced" /\ inGuard = "not_building_code_query") =>
        /\ specialistRuns = 0 /\ toolCalls = 0
        /\ pc # "raised"
        /\ pc = "returned" =>
              /\ result.error = "input_guardrail_triggered"
              /\ result.final_output = OutOfScopeMessage

\* C1 witness: the guard tripped after the triage agent's own turn, and the
\* orchestrator has returned
C1_Witness ==
    /\ op = "advanced" /\ inGuard = "not_building_code_query"
    /\ pc = "returned" /\ turn = 1 /\ chain # <<>>

\* C2: in PureSDKOrchestrator.process_query a tripped input or output guard yields a
\* result carrying the fixed refusal text and a guard-specific error tag, never the
\* shape of a technical failure (routing_method 'pure_sdk_error', generic apology,
\* success False).
C2_PureGuardTripDistinguishable ==
    (op = "pure" /\ pc = "returned" /\ (InputTripped \/ OutputTripped)) =>
        /\ result.routing_method # "pure_sdk_error"
        /\ result.final_output \in {OutOfScopeMessage, RephraseMessage}
        /\ result.final_output # PureErrorMessage
        /\ result.success

\* C3: when the output guard's verdict on an answer is "not safe" in a run wrapped
\* by handle_guardrail_exceptions, the returned final_output is the fixed rephrase
\* message, error is 'output_guardrail_triggered', and the raw answer is not returned.
C3_UnsafeAnswerDiscarded ==
    (op = "advanced" /\ outGuard = "not_safe_response") =>
        /\ pc # "raised"
        /\ pc = "returned" =>
              /\ result.final_output = RephraseMessage
              /\ result.error = "output_guardrail_triggered"
              /\ result.final_output # answer

\* C3 witness: a specialist's answer was judged not safe and the orchestrator returned
C3_Witness ==
    /\ op = "advanced" /\ outGuard = "not_safe_response" /\ pc = "returned"
    /\ answer \in RawAnswers /\ IsSpecialist(current)

\* C4 as claimed: the number of specialist-to-specialist handoffs of one triage run
\* never exceeds max_hops = 1.
C4_ChainWithinOneHop == Hops <= 1

\* C4 amended: every handoff of a triage run goes to a registered specialist other
\* than the one handing off, and the number of specialist-to-specialist handoffs is
\* bounded by the Runner's turn budget only (fewer than max_turns).
C4_ChainBoundedByTurns ==
    InRun =>
        /\ Hops < MaxTurns
        /\ \A k \in 1..Len(chain) : chain[k] \in Range(Specialists(op))
        /\ \A k \in 1..(Len(chain) - 1) : chain[k + 1] # chain[k]

\* C4 witness: a run that went code_b -> code_c -> code_b (two hops, a cycle)
C4_Witness ==
    /\ InRun /\ Hops >= 2 /\ chain[1] = chain[3] /\ pc = "returned"

NumFailed == Cardinality({i \in DOMAIN persp : persp[i].status = "failed"})

\* C5: when k of the 3 perspectives fail (k = 1 or 2), the result of
\* parallel_analysis has the synthesis as final_output, exactly 3-k parallel_analyses
\* and exactly k errors, and the consensus agent was run exactly once.
C5_PartialFailureStillSynthesizes ==
    (op = "parallel" /\ JoinReady /\ NumFailed \in {1, 2} /\ pc # "gather") =>
        /\ consensusCalls = 1
        /\ pc = "returned" =>
              /\ result.routing_method = "parallel_analysis"
              /\ result.final_output = "final recommendation"
              /\ Len(result.parallel_analyses) = 3 - NumFailed
              /\ Len(result.errors) = NumFailed

\* C5 witness: one perspective failed, and the result was returned
C5_Witness ==
    /\ op = "parallel" /\ pc = "returned" /\ NumFailed = 1
    /\ Len(result.parallel_analyses) = 2

\* C6: when all 3 perspectives fail, parallel_analysis returns routing_method
\* 'parallel_analysis_failed' with all 3 error messages and no parallel analyses, and
\* the consensus agent is never run.
C6_TotalFailureNoSynthesis ==
    (op = "parallel" /\ NumFailed = 3) =>
        /\ consensusCalls = 0
        /\ pc \in {"gather", "returned"}
        /\ pc = "returned" =>
              /\ result.routing_method = "parallel_analysis_failed"
              /\ Len(result.errors) = 3
              /\ "parallel_analyses" \notin DOMAIN result

\* C6 witness: all three failed and the failure result was returned
C6_Witness == op = "parallel" /\ NumFailed = 3 /\ pc = "returned"

\* C7: the consensus run starts only after all three perspectives have settled, each
\* by its own completion: no perspective is still running, skipped or cancelled by a
\* sibling's failure when the gather is left.
C7_JoinBarrier ==
    op = "parallel" =>
        /\ \A i \in Perspectives : Settled(i) <=> i \in Range(settledOrder)
        /\ (pc # "gather" \/ consensusCalls > 0) =>
              /\ \A i \in Perspectives : Settled(i)
              /\ Len(analyses) + Len(errors) = Len(PerspectiveAgents)

\* C7 witness: the first run to settle failed, a sibling succeeded after it, and the
\* consensus run was started
C7_Witness ==
    /\ op = "parallel" /\ pc = "consensus" /\ Len(settledOrder) = 3
    /\ persp[settledOrder[1]].status = "failed"
    /\ persp[settledOrder[3]].status = "ok"

\* every critique so far is a rejection that the acceptance check lets through
AlwaysRejected ==
    \A k \in 1..Len(critiques) :
        /\ critiques[k].rating \in {"needs_improvement", "inadequate"}
        /\ ~Accepted(critiques[k].text)

\* C8: when collaborative_review reaches the iteration maximum without acceptance, the
\* result carries an explicit accepted = false indication.
C8_ExhaustionFlagged ==
    (op = "review" /\ pc = "returned" /\ AlwaysRejected) =>
        /\ "accepted" \in DOMAIN result
        /\ result.accepted = FALSE

\* every critique so far rates the answer needs_improvement or inadequate
RatedRejected ==
    \A k \in 1..Len(critiques) : critiques[k].rating \in {"needs_improvement", "inadequate"}

\* C9: with a critic that rejects every answer the loop makes exactly 3 critic
\* evaluations, never a 4th and never fewer, and returns with iterations_completed = 3.
C9_RejectingCriticRunsThreeTimes ==
    (op = "review" /\ RatedRejected) =>
        /\ criticCalls <= 3 /\ improverCalls <= 3
        /\ pc = "returned" =>
              /\ criticCalls = 3 /\ improverCalls = 3
              /\ result.iterations_completed = 3

\* the loop bound itself: when no rejection's text matches the acceptance check, a
\* returning run made exactly 3 critic and 3 improver calls
PlainRejectionsRunThreeTimes ==
    (op = "review" /\ AlwaysRejected) =>
        /\ criticCalls <= 3 /\ improverCalls <= 3
        /\ pc = "returned" =>
              /\ criticCalls = 3 /\ improverCalls = 3
              /\ result.iterations_completed = 3

\* C10: when the critic's first critique rates the answer excellent or good,
\* collaborative_review returns after that one critic call, without any improver
\* call, with iterations_completed = 1 and final_output = initial_response.
C10_AcceptedAtOnce ==
    (op = "review" /\ critiques # <<>> /\ critiques[1].rating \in {"excellent", "good"}) =>
        /\ pc = "returned"
        /\ criticCalls = 1 /\ improverCalls = 0
        /\ result.iterations_completed = 1
        /\ result.final_output = critiques[1].evaluated
        /\ result.final_output = result.initial_response

\* C10 witness: the first critique was "good" and the function returned
C10_Witness ==
    /\ op = "review" /\ pc = "returned" /\ Len(critiques) = 1
    /\ critiques[1].rating = "good"


-----------------------------------------------------------------------------
(* sequential_chain *)

StartsOf(log) == SelectSeq(log, LAMBDA e : e.ev = "start")

\* C11: sequential_chain runs its stages strictly in the order research,
\* analysis, recommendation: the research run is the first thing started, every
\* later run is started only right after its predecessor's run completed,
\* nothing is started after a run failed, no stage runs twice, and a completed
\* chain has run exactly the three stages and returns research_phase,
\* analysis_phase and the final recommendation with chain_length 3.
C11_ThreeStagesInOrder ==
    op = "sequential" =>
        /\ \A i \in 1..Len(stage_log) :
              /\ (stage_log[i].ev = "start" /\ stage_log[i].stage = "research") => i = 1
              /\ (stage_log[i].ev = "start" /\ stage_log[i].stage = "analysis") =>
                     i > 1 /\ stage_log[i - 1] = [ev |-> "done", stage |-> "research"]
              /\ (stage_log[i].ev = "start" /\ stage_log[i].stage = "recommendation") =>
                     i > 1 /\ stage_log[i - 1] = [ev |-> "done", stage |-> "analysis"]
              /\ stage_log[i].ev = "failed" => i = Len(stage_log)
              /\ \A j \in 1..Len(stage_log) : stage_log[j] = stage_log[i] => j = i
        /\ Len(stage_log) >= 1 /\ stage_log[1] = [ev |-> "start", stage |-> "research"]
        /\ pc = "raised" => stage_log[Len(stage_log)].ev = "failed"
        /\ pc = "returned" =>
              /\ stage_log = << [ev |-> "start", stage |-> "research"],
                                [ev |-> "done",  stage |-> "research"],
                                [ev |-> "start", stage |-> "analysis"],
                                [ev |-> "done",  stage |-> "analysis"],
                                [ev |-> "start", stage |-> "recommendation"],
                                [ev |-> "done",  stage |-> "recommendation"] >>
              /\ DOMAIN result = {"final_output", "research_phase", "analysis_phase",
                                  "routing_method", "chain_length"}
              /\ result.chain_length = 3
              /\ result.research_phase = research_output
              /\ result.analysis_phase = analysis_output
              /\ result.final_output \in StageOutputs

\* a chain that ran all three stages and returned
C11_Witness ==
    /\ op = "sequential" /\ pc = "returned"
    /\ Len(StartsOf(stage_log)) = 3

\* a chain whose analysis run failed: the recommendation run was never started
C11_FailedStageWitness ==
    /\ op = "sequential" /\ pc = "raised"
    /\ stage_log[Len(stage_log)] = [ev |-> "failed", stage |-> "analysis"]

\* C12: every stage's prompt carries the original query and the outputs of all
\* stages before it: the analysis prompt contains the query and the research
\* output, the recommendation prompt contains the query, the research output
\* and the analysis output, and these are the texts returned as research_phase
\* and analysis_phase.
C12_PromptsCarryPriorOutputs ==
    op = "sequential" =>
        /\ Len(StartsOf(stage_log)) >= 2 =>
              /\ Contains(query, analysis_input)
              /\ Contains(research_output, analysis_input)
        /\ Len(StartsOf(stage_log)) >= 3 =>
              /\ Contains(query, recommendation_input)
              /\ Contains(research_output, recommendation_input)
              /\ Contains(analysis_output, recommendation_input)
        /\ pc = "returned" =>
              /\ Contains(result.research_phase, analysis_input)
              /\ Contains(result.research_phase, recommendation_input)
              /\ Contains(result.analysis_phase, recommendation_input)

\* a returned chain whose research and analysis outputs differ
C12_Witness ==
    /\ op = "sequential" /\ pc = "returned"
    /\ result.research_phase # result.analysis_phase
    /\ result.research_phase # <<>> /\ result.analysis_phase # <<>>


-----------------------------------------------------------------------------
(* failures of collaborator calls *)

\* C13: whichever collaborator call fails inside PureSDKOrchestrator.process_query,
\* parallel_analysis, sequential_chain or collaborative_review (a perspective,
\* the consensus step, a chain stage, the critic, the improver), the caller is
\* handed a result and no exception leaves the entry point.
C13_NoExceptionReachesCaller ==
    op \in {"pure", "parallel", "sequential", "review"} =>
        /\ pc # "raised"
        /\ raised = "none"

\* the part of C13 that the code keeps: PureSDKOrchestrator.process_query
\* turns every failure of its run into the error dictionary
PureNeverRaises ==
    op = "pure" => pc # "raised" /\ raised = "none"

\* C14: a guard whose own call failed reports tripwire_triggered = FALSE, and
\* the run goes on as if the guard had passed: a failed input guard never
\* yields the input-guard exception or refusal, and after a failed output guard
\* Runner.run returns the raw answer, which the entry point returns unchanged
\* and without an error entry.
C14_GuardFailureFailsOpen ==
    /\ ~building_code_input_guardrail("guard_call_failed").tripwire_triggered
    /\ ~safety_output_guardrail("guard_call_failed").tripwire_triggered
    /\ (InRun /\ inGuard = "guard_call_failed") =>
          /\ runOut # RunExc("InputGuardrailTripwireTriggered")
          /\ raised # "InputGuardrailTripwireTriggered"
          /\ pc = "returned" =>
                /\ result.final_output # OutOfScopeMessage
                /\ "error" \in DOMAIN result =>
                      result.error \notin {"input_guardrail_triggered",
                                           "InputGuardrailTripwireTriggered"}
    /\ (InRun /\ outGuard = "guard_call_failed") =>
          /\ pc \in {"run_done", "returned"}
          /\ runOut = RunOk(answer, current)
          /\ pc = "returned" =>
                /\ result.final_output = answer
                /\ "error" \notin DOMAIN result

\* a call whose two guards both failed and which returned the raw answer
C14_Witness ==
    /\ InRun /\ pc = "returned"
    /\ inGuard = "guard_call_failed" /\ outGuard = "guard_call_failed"
    /\ result.final_output = answer


-----------------------------------------------------------------------------
(* IntentClassifier.classify *)

\* keywords registered for the k-th domain and for no other domain
UniqueKeywords(k) ==
    {kw \in Range(keyword_patterns[k].keywords) :
        \A m \in DOMAIN keyword_patterns :
            m # k => kw \notin Range(keyword_patterns[m].keywords)}

\* whole-word score of the k-th domain on the query in progress
ScoreOf(k) == KeywordScore(keyword_patterns[k].keywords, Lower(query), 1)

\* domains of which at least one keyword occurs in the query as a whole word
MatchedDomains == {k \in DOMAIN keyword_patterns : ScoreOf(k) > 0}

\* C15 as stated: whenever the text of the query contains a keyword registered
\* for exactly one domain, classify returns that domain and makes no model call.
C15_UniqueKeywordDecides ==
    (op = "classify" /\ pc \in {"llm", "returned"}) =>
        \A k \in DOMAIN keyword_patterns :
            (\E kw \in UniqueKeywords(k) : Contains(kw, Lower(query))) =>
                /\ llmCalls = 0
                /\ pc = "returned"
                /\ result = keyword_patterns[k].intent

\* C15, amended: whenever the keywords that occur in the query as whole words
\* (case-insensitively) all belong to one domain, and at least one occurs,
\* classify returns that domain and makes no model call.
C15_SingleDomainKeywordsDecide ==
    op = "classify" =>
        \A k \in DOMAIN keyword_patterns :
            MatchedDomains = {k} =>
                /\ llmCalls = 0
                /\ pc = "returned"
                /\ result = keyword_patterns[k].intent

\* a query with keywords of one domain only, in upper and lower case
C15_Witness ==
    /\ op = "classify" /\ pc = "returned"
    /\ Cardinality(MatchedDomains) = 1
    /\ query # Lower(query)
    /\ llmCalls = 0

\* the model's answer, cleaned, is unrelated to every registered domain
Unmatched(r) ==
    /\ r.status = "ok"
    /\ \A k \in DOMAIN keyword_patterns :
          /\ ~Contains(keyword_patterns[k].chars, Lower(Strip(r.text)))
          /\ ~Contains(Lower(Strip(r.text)), keyword_patterns[k].chars)

\* C16: when no keyword matches, classify makes the model call and, whatever
\* the call gives (an exact domain, a partial match, unrelated text, empty
\* text, no text, an exception), returns a registered domain; on an unmatched
\* answer or a failure it returns general_building; classify never raises.
C16_FallbackStaysInRegistry ==
    op = "classify" =>
        /\ pc # "raised" /\ raised = "none"
        /\ (pc \in {"llm", "returned"} /\ MatchedDomains = {}) => llmCalls = 1
        /\ pc = "returned" => result \in Intents
        /\ (pc = "returned" /\ MatchedDomains = {}) =>
              /\ llm_response \in LLMResponses
              /\ (llm_response.status # "ok" \/ Unmatched(llm_response)) =>
                    result = "general_building"

\* a query without keywords whose model call failed
C16_Witness ==
    /\ op = "classify" /\ pc = "returned"
    /\ MatchedDomains = {}
    /\ llm_response.status = "exc"
    /\ result = "general_building"

\* a query without keywords answered with a padded, capitalised domain name
C16_CleanedAnswerWitness ==
    /\ op = "classify" /\ pc = "returned"
    /\ MatchedDomains = {}
    /\ llm_response.status = "ok"
    /\ llm_response.text # Lower(Strip(llm_response.text))
    /\ result = "plumbing"

\* C17: the keyword phase returns a domain whose score is nonzero and not
\* exceeded by any domain's, and every domain registered before the returned
\* one has a strictly lower score (of the domains tied on the highest score
\* the first registered is returned).
C17_HighestScoreFirstRegistered ==
    (op = "classify" /\ MatchedDomains # {}) =>
        \E k \in DOMAIN keyword_patterns :
            /\ keyword_intent = keyword_patterns[k].intent
            /\ ScoreOf(k) > 0
            /\ \A m \in DOMAIN keyword_patterns : ScoreOf(m) <= ScoreOf(k)
            /\ \A m \in DOMAIN keyword_patterns : m < k => ScoreOf(m) < ScoreOf(k)

\* two domains tie on the highest score and the one registered first is returned
C17_Witness ==
    /\ op = "classify" /\ pc = "returned"
    /\ \E k, m \in DOMAIN keyword_patterns :
          /\ k < m /\ ScoreOf(k) = ScoreOf(m) /\ ScoreOf(k) > 0
          /\ \A n \in DOMAIN keyword_patterns : ScoreOf(n) <= ScoreOf(k)
          /\ result = keyword_patterns[k].intent

\* a later registered domain wins on a higher score
C17_HigherScoreWitness ==
    /\ op = "classify" /\ pc = "returned"
    /\ \E k, m \in DOMAIN keyword_patterns :
          /\ k < m /\ ScoreOf(k) > 0 /\ ScoreOf(k) < ScoreOf(m)
          /\ result = keyword_patterns[m].intent


-----------------------------------------------------------------------------
(* vector search, context gathering, specialists *)

IsErrorPassage(p) == "error" \in DOMAIN p.metadata /\ p.metadata.error

\* C18: whenever the backend fails, at the construction of the client or in
\* the search procedure, vector_search_core returns exactly one passage and
\* that passage is flagged as an error passage.
C18_BackendFailureIsFlagged ==
    (op = "vector_search" /\ pc = "returned"
        /\ backend.status \in {"construct_failed", "rpc_failed"}) =>
        /\ Len(result) = 1
        /\ IsErrorPassage(result[1])

\* the part of C18 that the code keeps: a client that cannot be built is
\* answered with the single error passage
ConstructionFailureIsFlagged ==
    (op = "vector_search" /\ pc = "returned" /\ backend.status = "construct_failed") =>
        /\ Len(result) = 1
        /\ IsErrorPassage(result[1])

\* passages gathered that share the first PrefixLength characters with p
SamePrefix(p) ==
    {k \in DOMAIN all_results :
        Take(all_results[k].content, PrefixLength) = Take(p.content, PrefixLength)}

\* C19: of the gathered passages that share their first 100 characters exactly
\* one is in the result, and it has the highest similarity score among them.
C19_DuplicatesKeepBestScore ==
    (op = "context" /\ pc = "returned") =>
        \A i \in DOMAIN all_results :
            LET kept == {k \in DOMAIN result.results :
                            Take(result.results[k].content, PrefixLength)
                                = Take(all_results[i].content, PrefixLength)}
            IN  /\ Cardinality(kept) = 1
                /\ \A k \in kept : \A j \in SamePrefix(all_results[i]) :
                      all_results[j].similarity_score <= result.results[k].similarity_score

\* what the code does: of the passages that share their first 100 characters
\* the first one gathered is the one retained
DuplicatesKeepFirstGathered ==
    (op = "context" /\ pc = "returned") =>
        \A i \in DOMAIN all_results :
            \E k \in DOMAIN result.results :
                /\ result.results[k] = all_results[CHOOSE m \in SamePrefix(all_results[i]) :
                                                      \A n \in SamePrefix(all_results[i]) : m <= n]
                /\ \A n \in DOMAIN result.results :
                      Take(result.results[n].content, PrefixLength)
                          = Take(all_results[i].content, PrefixLength) => n = k

\* C20: when the model call of a specialist's process_query fails, or the
\* retrieval fails, the returned dictionary has an error entry and an apology
\* as its response, and no exception reaches the caller.
C20_FailureSetsError ==
    op = "specialist" =>
        /\ pc # "raised" /\ raised = "none"
        /\ (pc = "returned"
              /\ (llm.status # "ok" \/ backend.status \in {"construct_failed", "rpc_failed"})) =>
              /\ "error" \in DOMAIN result
              /\ result.response \in {ProcessingErrorMessage[specialist], GenerationErrorMessage}

\* the part of C20 that the code keeps: no exception reaches the caller, and a
\* failed model call is answered with an apology
SpecialistNeverRaises ==
    op = "specialist" =>
        /\ pc # "raised" /\ raised = "none"
        /\ (pc = "returned" /\ llm.status # "ok") => result.response = GenerationErrorMessage


-----------------------------------------------------------------------------
(* registry lookups *)

\* C21: a lookup of an agent type that is not registered fails: get_agent_spec
\* does not return for it, and get_specialist_directly raises ValueError
\* before any specialist is run.
C21_UnknownDomainFails ==
    /\ (op = "lookup" /\ specialist \notin Range(AgentTypes)) => pc = "raised"
    /\ (op = "direct" /\ specialist \notin Range(AgentTypes)) =>
          /\ pc = "raised" /\ raised = "ValueError"
          /\ specialistRuns = 0

\* the part of C21 that the code keeps: get_specialist_directly raises
\* ValueError for an unknown type and runs nothing
DirectUnknownTypeRaises ==
    (op = "direct" /\ specialist \notin Range(AgentTypes)) =>
        /\ pc = "raised" /\ raised = "ValueError"
        /\ specialistRuns = 0

\* what get_agent_spec does for an unknown type: the empty dictionary
UnknownLookupGivesEmpty ==
    (op = "lookup" /\ specialist \notin Range(AgentTypes)) =>
        pc = "returned" /\ result = <<>>


-----------------------------------------------------------------------------
(* the cache of pure_sdk.py *)

IsGet(e) == e.call \in {"get_pure_sdk_specialists", "get_pure_sdk_triage"}

NoResetBetween(i, j) ==
    \A k \in DOMAIN cache_log : (i < k /\ k < j) => cache_log[k].call # "reset_pure_sdk_cache"

\* C22: between two resets the specialists mapping and the triage agent are
\* each constructed at most once; two calls of the same getter with no reset
\* between them return the identical object; and the first call of a getter
\* after a reset returns an object that no earlier call has returned.
C22_ConstructedOncePerReset ==
    \A i, j \in DOMAIN cache_log :
        /\ (i < j /\ NoResetBetween(i, j)) =>
              /\ ~(cache_log[i].built_specialists /\ cache_log[j].built_specialists)
              /\ ~(cache_log[i].built_triage /\ cache_log[j].built_triage)
              /\ (IsGet(cache_log[i]) /\ cache_log[j].call = cache_log[i].call) =>
                    cache_log[j].returned = cache_log[i].returned
        /\ (i < j /\ IsGet(cache_log[j]) /\ cache_log[i].call = cache_log[j].call
              /\ ~NoResetBetween(i, j)) =>
                    cache_log[j].returned # cache_log[i].returned

\* a getter called twice, a reset, and the same getter called again
C22_Witness ==
    \E i, j, k \in DOMAIN cache_log :
        /\ i < j /\ j < k
        /\ cache_log[i].call = "get_pure_sdk_triage" /\ cache_log[j].call = "get_pure_sdk_triage"
        /\ NoResetBetween(i, j) /\ ~NoResetBetween(j, k)
        /\ cache_log[k].call = "get_pure_sdk_triage"
        /\ cache_log[i].returned = cache_log[j].returned
        /\ cache_log[k].returned # cache_log[j].returned

\* C30: whenever the triage cache holds an agent, the specialists cache holds
\* a mapping and the cached triage agent hands off to the agents of exactly
\* that mapping, never to those of a mapping a reset has discarded.
C30_TriageHandsOffToCachedSpecialists ==
    triage_cache # <<>> =>
        /\ specialists_cache # <<>>
        /\ triage_cache[1].handoffs = specialists_cache[1]

\* after a reset a triage agent is cached again, over a second mapping
C30_Witness ==
    /\ triage_cache # <<>> /\ specialists_cache # <<>>
    /\ \E i \in DOMAIN cache_log : cache_log[i].call = "reset_pure_sdk_cache"
    /\ \E i \in DOMAIN cache_log :
          /\ cache_log[i].built_specialists
          /\ \E j \in DOMAIN cache_log : j > i /\ cache_log[j].built_specialists
    /\ triage_cache[1].handoffs = specialists_cache[1]


-----------------------------------------------------------------------------
(* parallel_analysis: hung runs, the context argument, completion order *)

\* C23: in parallel_analysis a perspective whose collaborator call never
\* completes is eventually treated as a failure (a timeout error in its slot)
\* and parallel_analysis eventually gets past the join, to the consensus run
\* or to a returned result built from the sibling branches.
C23_HungBranchTimesOut ==
    \A i \in Perspectives :
        (op = "parallel" /\ i \in hung) ~>
            (op = "parallel" /\ pc \in {"consensus", "returned", "raised"}
                /\ persp[i].status = "failed")

\* what the code does instead: with a hung run the function stays at the
\* gather, the hung slot is never filled, and no result is produced
HungBranchBlocksJoin ==
    (op = "parallel" /\ hung # {}) =>
        /\ pc = "gather"
        /\ \A i \in hung : persp[i] = Running
        /\ consensusCalls = 0

\* the siblings of a hung run are not aborted: they settle with their own outcomes
HungBranchKeepsSiblings ==
    (op = "parallel" /\ hung # {}) =>
        \A i \in Perspectives : persp[i].status = "failed" => persp[i].error # "cancelled"

\* C25: when the caller supplies a non-empty context, the three concurrent
\* runs of parallel_analysis are handed three different context mappings, no
\* two runs sharing one mutable object.
C25_RunsGetPrivateContexts ==
    (op = "parallel" /\ run_contexts.caller = "non-empty") =>
        \A i, j \in Perspectives :
            i # j => run_contexts.objects[i] # run_contexts.objects[j]

\* what holds: the runs get private mappings exactly when the caller passed
\* None or an empty dictionary, and the caller's own object otherwise
ContextSharedIffNonEmpty ==
    op = "parallel" =>
        \A i, j \in Perspectives :
            i # j => ((run_contexts.objects[i] = run_contexts.objects[j])
                        <=> run_contexts.caller = "non-empty")

\* the k-th smallest element of a set of perspectives
KthOf(S, k) == CHOOSE i \in S : Cardinality({j \in S : j < i}) = k - 1

Succeeded == {i \in Perspectives : persp[i].status = "ok"}
Failed == {i \in Perspectives : persp[i].status = "failed"}

\* C29: once the join has returned, parallel_analyses, errors and the
\* consensus input list the perspectives in the fixed order structural, fire
\* safety, accessibility, whatever order the three runs settled in: each is
\* determined by the per-perspective outcomes alone.
C29_ResultIndependentOfCompletionOrder ==
    (op = "parallel" /\ pc \in {"consensus", "returned", "raised"}) =>
        /\ Len(analyses) = Cardinality(Succeeded)
        /\ \A k \in 1..Len(analyses) :
              analyses[k] = persp[KthOf(Succeeded, k)].final_output
        /\ Len(errors) = Cardinality(Failed)
        /\ \A k \in 1..Len(errors) :
              errors[k] = <<PerspectiveLabels[KthOf(Failed, k)], persp[KthOf(Failed, k)].error>>
        /\ (consensusCalls > 0) =>
              consensus_input = [k \in 1..Cardinality(Succeeded) |->
                                    PerspectiveAgents[KthOf(Succeeded, k)]]
        /\ (pc = "returned" /\ result.routing_method = "parallel_analysis") =>
              result.parallel_analyses = analyses
        /\ (pc = "returned" /\ result.routing_method = "parallel_analysis_failed") =>
              result.errors = errors

\* the accessibility run settles first and the structural run last, two
\* analyses and one error are returned
C29_Witness ==
    /\ op = "parallel" /\ pc = "returned"
    /\ settledOrder = <<3, 2, 1>>
    /\ persp[1].status = "ok" /\ persp[2].status = "failed" /\ persp[3].status = "ok"
    /\ Len(result.parallel_analyses) = 2
    /\ result.parallel_analyses[1].agent_name = PerspectiveAgents[1]
    /\ result.parallel_analyses[2].agent_name = PerspectiveAgents[3]


-----------------------------------------------------------------------------
(* run_advanced_orchestration, method 'review' *)

\* C24: in run_advanced_orchestration with method 'review', once the input
\* guard has tripped on the query during the initial triage run, no critic
\* and no improver agent is run, and a returned final_output is the fixed
\* out-of-scope message.
C24_TrippedReviewAborts ==
    (method = "review" /\ InputTripped) =>
        /\ criticCalls = 0 /\ improverCalls = 0
        /\ op = "advanced"
        /\ pc = "returned" => result.final_output = OutOfScopeMessage

\* what the code does: the refusal text is handed to collaborative_review as
\* the initial response, so a returning review of a tripped query has run the
\* critic on it
TrippedReviewRunsCritic ==
    (method = "review" /\ InputTripped /\ op = "review") =>
        /\ InitialOf = OutOfScopeMessage
        /\ pc = "returned" => (criticCalls >= 1 /\ result.initial_response = OutOfScopeMessage)


-----------------------------------------------------------------------------
(* collaborative_review: what ends the loop, and what is returned *)

LastCritique == critiques[Len(critiques)]

\* C26: a critique rated needs_improvement or inadequate never ends the loop
\* as accepted, whatever its text contains: a review that has returned after
\* such a last critique has run the improver once for every critic run.
C26_RejectingRatingNeverAccepts ==
    (op = "review" /\ pc = "returned" /\ critiques # <<>>
        /\ LastCritique.rating \in {"needs_improvement", "inadequate"}) =>
        improverCalls = criticCalls

\* what the code does: the loop ends as accepted exactly when the critique's
\* lower-cased text contains "excellent" or "good", whatever the rating
AcceptanceIsSubstringMatch ==
    (op = "review" /\ pc = "returned" /\ critiques # <<>>) =>
        ((improverCalls < criticCalls) <=> Accepted(LastCritique.text))

\* C28: in every result of collaborative_review, final_critique is the
\* critic's evaluation of exactly the text returned as final_output, both
\* when the loop ends by acceptance and when it ends at the iteration maximum.
C28_FinalCritiqueIsOfFinalOutput ==
    (op = "review" /\ pc = "returned") =>
        /\ critiques # <<>>
        /\ result.final_critique = LastCritique.text
        /\ result.final_output = LastCritique.evaluated

\* what holds: final_critique is the last critique written; it is of the
\* returned text exactly when the loop ended by acceptance, and of the text
\* before the last revision when the iterations ran out
FinalCritiqueIsLastWritten ==
    (op = "review" /\ pc = "returned") =>
        /\ critiques # <<>>
        /\ result.final_critique = LastCritique.text
        /\ Accepted(LastCritique.text) => result.final_output = LastCritique.evaluated
        /\ ~Accepted(LastCritique.text) =>
              /\ result.iterations_completed = max_iterations
              /\ improverCalls = criticCalls
              /\ result.final_output \in Revisions


-----------------------------------------------------------------------------
(* OrchestratorAgent.process_query *)

\* the specialist the routing table names for an intent
RoutedTo(intent) ==
    CASE intent \in {"energy_efficiency", "building_envelope"} -> "code_c"
      [] intent = "mechanical_systems" -> "code_d"
      [] intent = "lighting" -> "code_e"
      [] intent = "plumbing" -> "code_f"
      [] intent = "electrical" -> "code_g"
      [] intent = "accessibility" -> "code_h"
      [] intent = "general_building" -> "code_b"
      [] OTHER -> "unmapped"

\* the graph went classify_intent, one of the two other nodes, END; the general
\* node ran only after a classification error or an unmapped intent
GraphPathIsOneBranch ==
    (op = "orchestrator" /\ pc \in {"END", "returned"}) =>
        /\ graph_path \in {<<"classify_intent", "route_to_specialist">>,
                           <<"classify_intent", "handle_general_query">>}
        /\ graph_path[2] = "handle_general_query" <=>
              (state.intent = None \/ RoutedTo(state.intent[1]) = "unmapped")
        /\ \A i \in Intents : RoutedTo(i) # "unmapped" /\ specialist_mapping[i] = RoutedTo(i)

\* C27: process_query goes classify_intent, then exactly one of
\* route_to_specialist or handle_general_query, then END; every intent of the
\* classifier is mapped to its specialist; a routed query is executed by
\* exactly the mapped specialist, which is reported as agent_used; and
\* handle_general_query runs only after a classification error or an
\* unmapped intent.
C27_MappedSpecialistExecutes ==
    /\ GraphPathIsOneBranch
    /\ (op = "orchestrator" /\ pc = "returned" /\ graph_path[2] = "route_to_specialist") =>
          /\ executed.agent = RoutedTo(state.intent[1])
          /\ result.agent_used = RoutedTo(state.intent[1])

\* what holds: when the mapped specialist's class loads, it executes the query
\* and is reported; after a failed load CodeBAgent executes while the mapped
\* name is still reported
RoutedSpecialistWhenLoaded ==
    (op = "orchestrator" /\ pc = "returned" /\ graph_path[2] = "route_to_specialist") =>
        /\ executed.loaded = "requested" =>
              /\ executed.agent = RoutedTo(state.intent[1])
              /\ result.agent_used = executed.agent
        /\ executed.loaded = "fallback" =>
              /\ executed.agent = "code_b"
              /\ result.agent_used = RoutedTo(state.intent[1])
        /\ executed.loaded = "failed" =>
              /\ executed.agent = "none"
              /\ result.agent_used = "orchestrator"

=============================================================================
